---------------------------- MODULE Spec2Model ----------------------------
(***************************************************************************)
(* A model of the image editor of ChatApp1: the crop-rectangle clamp, the  *)
(* screen-to-image coordinate conversion, the undo/redo stack and the      *)
(* gesture handlers of ImageEditorScreen.                                  *)
(*                                                                         *)
(* JavaScript numbers are modelled as exact rationals <<n, d>> (d > 0, in  *)
(* lowest terms): the arithmetic of the handlers is +, -, *, /, min, max   *)
(* and Math.round, and every input used here is exactly representable as   *)
(* a double, so the exact value is the value the code computes up to the   *)
(* rounding error of a double (about 1e-13 px at these magnitudes).        *)
(***************************************************************************)
EXTENDS Integers, Sequences, FiniteSets, TLC

VARIABLES
    window,          \* Dimensions.get('window'): [width, height], read once at module load
    clampArg,        \* argument (x, y, width, height) handed to clampCropToBounds
    clampRes,        \* <<>> or <<its result>>
    clampRes2,       \* <<>> or <<the result of clamping clampRes again>>
    aspectArg,       \* [rect, ratio]: the crop rectangle and the ratio handed to updateCropForAspectRatio
    aspectRes,       \* <<>> or <<its result>>
    rotateArg,       \* the EXIF orientation the first rotation value is derived from
    rotateRun,       \* the rotation values of a run of Rotate presses, the starting value first
    mapArg,          \* [crop, params]: the arguments handed to the screen-to-image conversion
    mapRes,          \* <<>> or <<the result of screenToImageCoordinates>>
    cropRes,         \* <<>> or <<the result of calculateCropCoordinates>>
    undoStack,       \* UndoRedoStack.undoStack: sequence of EditorState, oldest first
    redoStack,       \* UndoRedoStack.redoStack
    maxStackSize,    \* UndoRedoStack.maxStackSize
    stackLog,        \* the last three calls made on the stack: [op, arg, ret]
    \* ImageEditorScreen: props and React state
    visible,         \* the visible prop
    pendingLoads,    \* loadImage calls waiting in `await getImageDimensions(uri)`: sequence of images
    imageUri,        \* <<>> (null) or <<uri>>
    originalImageUri,
    imageSize,       \* [width, height], {0, 0} while no image is loaded
    exifOrientation,
    rotation,        \* whole degrees
    aspectRatio,     \* "free", "1:1", "4:5", "16:9"
    brightness, contrast, saturation,
    mode,            \* "crop", "adjust", "draw", "text"
    activeHandle,    \* "none" (null) or the corner being dragged
    drawings, textStickers,
    \* ImageEditorScreen: shared values (each holds the value its animation settles at)
    scale, translateX, translateY,
    baseScale, baseTranslateX, baseTranslateY,
    cropX, cropY, cropWidth, cropHeight,
    baseCropX, baseCropY, baseCropWidth, baseCropHeight,
    \* ImageEditorScreen: refs
    initialCropWidth, initialCropHeight, initialScale,
    isAnimating,     \* the isAnimating React state
    \* gesture sessions (between onStart and onEnd)
    panActive, pinchActive,
    \* DrawingCanvas: shared values
    isDrawing, pathPoints,
    \* TextSticker (the component of the first sticker): shared values, the sticker prop its
    \* gesture callbacks hold, the gestures in progress, the runOnJS calls not yet run
    stickerView,
    \* animations started and not yet finished: a subset of Animations
    inFlight,
    \* handleSave in progress
    savePhase,       \* "idle", or where the running handleSave is: see SavePhases
    capturedAnimating, \* the isAnimating the closure of the running waitForAnimations holds
    clock,           \* ms since Done was pressed, 0 while handleSave is not waiting
    delayDue,        \* <<>> or <<the time the pending setTimeout(resolve, 100) fires>>
    exportRead,      \* <<>> or <<the values the last handleSave read for the export>>
    saved,           \* <<>> or <<the media record of the last onSave call>>
    saveError,       \* TRUE when the last handleSave ended in its catch block (the error alert)
    pressed,         \* <<>> or <<what the editor held when Done was last pressed>>
    saveRuns,        \* the handleSave calls in progress, followed one by one: [phase, closure, read]
    onSaveCalls,     \* the number of onSave calls since the editor was last shown
    \* history of the run, read by the properties only
    panTrace,        \* [startX, startY, deltas, totalX, totalY, rest, pans, pinches, factor, loaded]: translation at onStart, the deltas of this session, the translation written last outside a pan plus the final deltas of the sessions ended since; the transform when a session last began with no other running, the pan and pinch sessions begun since, the factor of the last pinch update, what the editor showed when the last image load completed
    pinchUpdated,    \* TRUE when the handler that ran last is pinchGesture.onUpdate
    sessions,        \* the number of image gesture sessions (pan, pinch) begun so far
    edits            \* the number of button presses that save a snapshot or start an export, and of corner drags, so far

clampVars == <<clampArg, clampRes, clampRes2>>
aspectVars == <<aspectArg, aspectRes>>
rotateVars == <<rotateArg, rotateRun>>
mapVars == <<mapArg, mapRes, cropRes>>
stackVars == <<undoStack, redoStack, maxStackSize, stackLog>>
imageVars == <<imageUri, originalImageUri, imageSize, exifOrientation>>
filterVars == <<brightness, contrast, saturation>>
layerVars == <<drawings, textStickers>>
transformVars == <<scale, translateX, translateY>>
baseTransformVars == <<baseScale, baseTranslateX, baseTranslateY>>
cropVars == <<cropX, cropY, cropWidth, cropHeight>>
baseCropVars == <<baseCropX, baseCropY, baseCropWidth, baseCropHeight>>
initialVars == <<initialCropWidth, initialCropHeight, initialScale>>
sessionVars == <<panActive, pinchActive, activeHandle>>
drawVars == <<isDrawing, pathPoints, stickerView>>
animVars == <<isAnimating, inFlight>>
saveVars == <<savePhase, capturedAnimating, clock, delayDue, exportRead, saved, saveError,
              pressed, saveRuns, onSaveCalls>>
traceVars == <<panTrace, sessions, edits>>
editorVars ==
    <<visible, pendingLoads, imageVars, rotation, aspectRatio, filterVars, mode, layerVars,
      transformVars, baseTransformVars, cropVars, baseCropVars, initialVars, sessionVars,
      pinchUpdated, traceVars, drawVars, animVars, saveVars>>
vars == <<window, clampVars, aspectVars, rotateVars, mapVars, stackVars, editorVars>>

----------------------------------------------------------------------------
(* JavaScript numbers as exact rationals.                                  *)

RECURSIVE GCD(_, _)
GCD(a, b) ==
    IF b = 0 THEN a ELSE GCD(b, a % b)

AbsInt(n) ==
    IF n < 0 THEN -n ELSE n

\* n / d in lowest terms with a positive denominator (d # 0).
Rat(n, d) ==
    LET g == GCD(AbsInt(n), AbsInt(d))
        s == IF d < 0 THEN -1 ELSE 1
    IN  <<(s * n) \div g, (s * d) \div g>>

I(n) ==
    <<n, 1>>

Add(a, b) ==
    Rat(a[1] * b[2] + b[1] * a[2], a[2] * b[2])

Sub(a, b) ==
    Rat(a[1] * b[2] - b[1] * a[2], a[2] * b[2])

Mul(a, b) ==
    Rat(a[1] * b[1], a[2] * b[2])

\* a / b for b # 0.
Div(a, b) ==
    Rat(a[1] * b[2], a[2] * b[1])

Neg(a) ==
    <<-a[1], a[2]>>

Lt(a, b) ==
    a[1] * b[2] < b[1] * a[2]

Le(a, b) ==
    a[1] * b[2] <= b[1] * a[2]

Gt(a, b) ==
    Lt(b, a)

Ge(a, b) ==
    Le(b, a)

MathMax(a, b) ==
    IF Lt(a, b) THEN b ELSE a

MathMin(a, b) ==
    IF Lt(b, a) THEN b ELSE a

MathAbs(a) ==
    <<AbsInt(a[1]), a[2]>>

\* Math.round: the nearest integer, a tie going up (floor(a + 1/2)).
MathRound(a) ==
    I((2 * a[1] + a[2]) \div (2 * a[2]))

IsInteger(a) ==
    a[2] = 1

----------------------------------------------------------------------------
(* Module-level constants of ImageEditorScreen.                            *)

SCREEN_WIDTH == I(window.width)
SCREEN_HEIGHT == I(window.height)
EDITOR_HEIGHT == Sub(SCREEN_HEIGHT, I(120))
CROP_SIZE == MathMin(Sub(SCREEN_WIDTH, I(80)), Mul(SCREEN_HEIGHT, Rat(1, 2)))
MIN_CROP_SIZE == I(100)
MAX_CROP_SIZE == MathMin(Sub(SCREEN_WIDTH, I(80)), Mul(SCREEN_HEIGHT, Rat(6, 10)))

Rect(x, y, w, h) ==
    [x |-> x, y |-> y, width |-> w, height |-> h]

----------------------------------------------------------------------------
(* clampCropToBounds, statement by statement.                              *)

\* The clamp as it would be without its second pass (no re-floor, no inward shift).
clampSinglePass(x, y, width, height) ==
    LET w1 == MathMax(MIN_CROP_SIZE, width)
        h1 == MathMax(MIN_CROP_SIZE, height)
        w2 == IF Lt(x, I(0)) THEN Add(w1, x) ELSE w1
        x2 == IF Lt(x, I(0)) THEN I(0) ELSE x
        h2 == IF Lt(y, I(0)) THEN Add(h1, y) ELSE h1
        y2 == IF Lt(y, I(0)) THEN I(0) ELSE y
        w3 == IF Gt(Add(x2, w2), SCREEN_WIDTH) THEN Sub(SCREEN_WIDTH, x2) ELSE w2
        h3 == IF Gt(Add(y2, h2), EDITOR_HEIGHT) THEN Sub(EDITOR_HEIGHT, y2) ELSE h2
    IN  Rect(x2, y2, w3, h3)

\* The clamp without its final boundary check (the minimum re-applied, no shift).
clampNoShift(x, y, width, height) ==
    LET r == clampSinglePass(x, y, width, height)
    IN  Rect(r.x, r.y, MathMax(MIN_CROP_SIZE, r.width), MathMax(MIN_CROP_SIZE, r.height))

clampCropToBounds(x, y, width, height) ==
    LET w1 == MathMax(MIN_CROP_SIZE, width)
        h1 == MathMax(MIN_CROP_SIZE, height)
        w2 == IF Lt(x, I(0)) THEN Add(w1, x) ELSE w1
        x2 == IF Lt(x, I(0)) THEN I(0) ELSE x
        h2 == IF Lt(y, I(0)) THEN Add(h1, y) ELSE h1
        y2 == IF Lt(y, I(0)) THEN I(0) ELSE y
        w3 == IF Gt(Add(x2, w2), SCREEN_WIDTH) THEN Sub(SCREEN_WIDTH, x2) ELSE w2
        h3 == IF Gt(Add(y2, h2), EDITOR_HEIGHT) THEN Sub(EDITOR_HEIGHT, y2) ELSE h2
        w4 == MathMax(MIN_CROP_SIZE, w3)
        h4 == MathMax(MIN_CROP_SIZE, h3)
        x5 == IF Gt(Add(x2, w4), SCREEN_WIDTH) THEN Sub(SCREEN_WIDTH, w4) ELSE x2
        y5 == IF Gt(Add(y2, h4), EDITOR_HEIGHT) THEN Sub(EDITOR_HEIGHT, h4) ELSE y2
    IN  Rect(x5, y5, w4, h4)

\* The crop-rectangle invariant of the editor: minimum size and containment.
CropRectValid(r) ==
    /\ Ge(r.width, MIN_CROP_SIZE)
    /\ Ge(r.height, MIN_CROP_SIZE)
    /\ Ge(r.x, I(0))
    /\ Ge(r.y, I(0))
    /\ Le(Add(r.x, r.width), SCREEN_WIDTH)
    /\ Le(Add(r.y, r.height), EDITOR_HEIGHT)

----------------------------------------------------------------------------
(* The screen-to-image conversion (calculateImageDisplayBounds,            *)
(* screenToImageCoordinates, calculateCropCoordinates, calculateMinScale). *)
(* Rotations are whole multiples of 90 degrees, for which Math.cos and     *)
(* Math.sin are 0, 1 or -1 (a double gives 6e-17 in place of 0, which the  *)
(* final Math.round absorbs except at an exact tie).                       *)

Mod360(deg) ==
    ((deg % 360) + 360) % 360

CosDeg(deg) ==
    CASE Mod360(deg) = 0 -> I(1)
      [] Mod360(deg) = 90 -> I(0)
      [] Mod360(deg) = 180 -> I(-1)
      [] Mod360(deg) = 270 -> I(0)

SinDeg(deg) ==
    CASE Mod360(deg) = 0 -> I(0)
      [] Mod360(deg) = 90 -> I(1)
      [] Mod360(deg) = 180 -> I(0)
      [] Mod360(deg) = 270 -> I(-1)

Min4(a, b, c, d) ==
    MathMin(MathMin(a, b), MathMin(c, d))

Max4(a, b, c, d) ==
    MathMax(MathMax(a, b), MathMax(c, d))

\* ImageDisplayParams; rotation in whole degrees.
Params(iw, ih, dw, dh, sc, tx, ty, rot) ==
    [imageWidth |-> iw, imageHeight |-> ih, displayWidth |-> dw, displayHeight |-> dh,
     scale |-> sc, translateX |-> tx, translateY |-> ty, rotation |-> rot]

calculateImageDisplayBounds(params) ==
    LET scaledWidth == Mul(params.imageWidth, params.scale)
        scaledHeight == Mul(params.imageHeight, params.scale)
        cos == MathAbs(CosDeg(params.rotation))
        sin == MathAbs(SinDeg(params.rotation))
        rotatedWidth == Add(Mul(scaledWidth, cos), Mul(scaledHeight, sin))
        rotatedHeight == Add(Mul(scaledWidth, sin), Mul(scaledHeight, cos))
    IN  [displayedWidth |-> rotatedWidth,
         displayedHeight |-> rotatedHeight,
         displayedX |-> Add(Div(Sub(params.displayWidth, rotatedWidth), I(2)), params.translateX),
         displayedY |-> Add(Div(Sub(params.displayHeight, rotatedHeight), I(2)), params.translateY)]

\* The four corners of (x, y, w, h) turned by -rotation about (centerX, centerY),
\* and their bounding box.
reverseRotate(x, y, w, h, centerX, centerY, rot) ==
    LET cos == CosDeg(-rot)
        sin == SinDeg(-rot)
        rx(px, py) == Sub(Add(centerX, Mul(Sub(px, centerX), cos)), Mul(Sub(py, centerY), sin))
        ry(px, py) == Add(Add(centerY, Mul(Sub(px, centerX), sin)), Mul(Sub(py, centerY), cos))
        x1 == Add(x, w)
        y1 == Add(y, h)
        minX == Min4(rx(x, y), rx(x1, y), rx(x, y1), rx(x1, y1))
        maxX == Max4(rx(x, y), rx(x1, y), rx(x, y1), rx(x1, y1))
        minY == Min4(ry(x, y), ry(x1, y), ry(x, y1), ry(x1, y1))
        maxY == Max4(ry(x, y), ry(x1, y), ry(x, y1), ry(x1, y1))
    IN  Rect(minX, minY, Sub(maxX, minX), Sub(maxY, minY))

\* Clamp to the image, then round each field.
clampToImage(r, imageWidth, imageHeight) ==
    LET x == MathMax(I(0), MathMin(Sub(imageWidth, I(1)), r.x))
        y == MathMax(I(0), MathMin(Sub(imageHeight, I(1)), r.y))
        w == MathMax(I(1), MathMin(Sub(imageWidth, x), r.width))
        h == MathMax(I(1), MathMin(Sub(imageHeight, y), r.height))
    IN  Rect(MathRound(x), MathRound(y), MathRound(w), MathRound(h))

\* The conversion without the division by scale (screen pixels taken for image pixels).
screenToImageNoScale(screenCrop, params) ==
    LET displayBounds == calculateImageDisplayBounds(params)
        unrotated == Rect(Sub(screenCrop.x, displayBounds.displayedX),
                          Sub(screenCrop.y, displayBounds.displayedY),
                          screenCrop.width, screenCrop.height)
        imageCrop == IF params.rotation # 0
                     THEN reverseRotate(unrotated.x, unrotated.y, unrotated.width, unrotated.height,
                                        Div(params.imageWidth, I(2)), Div(params.imageHeight, I(2)),
                                        params.rotation)
                     ELSE unrotated
    IN  clampToImage(imageCrop, params.imageWidth, params.imageHeight)

screenToImageCoordinates(screenCrop, params) ==
    LET displayBounds == calculateImageDisplayBounds(params)
        cropRelativeX == Sub(screenCrop.x, displayBounds.displayedX)
        cropRelativeY == Sub(screenCrop.y, displayBounds.displayedY)
        unrotated == Rect(Div(cropRelativeX, params.scale), Div(cropRelativeY, params.scale),
                          Div(screenCrop.width, params.scale), Div(screenCrop.height, params.scale))
        imageCrop == IF params.rotation # 0
                     THEN reverseRotate(unrotated.x, unrotated.y, unrotated.width, unrotated.height,
                                        Div(params.imageWidth, I(2)), Div(params.imageHeight, I(2)),
                                        params.rotation)
                     ELSE unrotated
    IN  clampToImage(imageCrop, params.imageWidth, params.imageHeight)

\* calculateCropCoordinates(imageSize, displaySize, cropArea, transform): the same
\* conversion, with the image placed by its unrotated scaled size.
calculateCropCoordinates(cropArea, params) ==
    LET scaledWidth == Mul(params.imageWidth, params.scale)
        scaledHeight == Mul(params.imageHeight, params.scale)
        imageDisplayX == Add(Div(Sub(params.displayWidth, scaledWidth), I(2)), params.translateX)
        imageDisplayY == Add(Div(Sub(params.displayHeight, scaledHeight), I(2)), params.translateY)
        unrotated == Rect(Div(Sub(cropArea.x, imageDisplayX), params.scale),
                          Div(Sub(cropArea.y, imageDisplayY), params.scale),
                          Div(cropArea.width, params.scale), Div(cropArea.height, params.scale))
        crop == IF params.rotation # 0
                THEN reverseRotate(unrotated.x, unrotated.y, unrotated.width, unrotated.height,
                                   Div(params.imageWidth, I(2)), Div(params.imageHeight, I(2)),
                                   params.rotation)
                ELSE unrotated
    IN  clampToImage(crop, params.imageWidth, params.imageHeight)

calculateMinScale(imageWidth, imageHeight, cropW, cropH) ==
    MathMax(Div(cropW, imageWidth), Div(cropH, imageHeight))

----------------------------------------------------------------------------
(* UndoRedoStack.  A stack is the pair of its undoStack and redoStack; the *)
(* last element of a sequence is the top.                                  *)

\* EditorState, the undo/redo snapshot.
EditorState(rot, sc, tx, ty, cw, ch, br, co, sa, dr, st) ==
    [rotation |-> rot, scale |-> sc, translateX |-> tx, translateY |-> ty,
     cropWidth |-> cw, cropHeight |-> ch,
     brightness |-> br, contrast |-> co, saturation |-> sa,
     drawings |-> dr, textStickers |-> st]

\* cloneState: the scalar fields copied, each drawing copied with a copy of its
\* points, each sticker copied.
cloneState(state) ==
    [rotation |-> state.rotation, scale |-> state.scale,
     translateX |-> state.translateX, translateY |-> state.translateY,
     cropWidth |-> state.cropWidth, cropHeight |-> state.cropHeight,
     brightness |-> state.brightness, contrast |-> state.contrast,
     saturation |-> state.saturation,
     drawings |-> [i \in DOMAIN state.drawings |->
                     [state.drawings[i] EXCEPT
                        !.points = [j \in DOMAIN state.drawings[i].points |->
                                      state.drawings[i].points[j]]]],
     textStickers |-> [i \in DOMAIN state.textStickers |-> state.textStickers[i]]]

Stacks(us, rs) ==
    [undoStack |-> us, redoStack |-> rs]

Pop(seq) ==
    SubSeq(seq, 1, Len(seq) - 1)

Shift(seq) ==
    SubSeq(seq, 2, Len(seq))

Top(seq) ==
    seq[Len(seq)]

\* saveState without the limit on the undo stack.
saveStateUnbounded(us, rs, max, state) ==
    Stacks(Append(us, cloneState(state)), <<>>)

\* saveState that leaves the redo stack as it was.
saveStateKeepsRedo(us, rs, max, state) ==
    LET pushed == Append(us, cloneState(state))
    IN  Stacks(IF Len(pushed) > max THEN Shift(pushed) ELSE pushed, rs)

\* saveState that makes room by dropping the snapshot just pushed.
saveStateDropsNewest(us, rs, max, state) ==
    LET pushed == Append(us, cloneState(state))
    IN  Stacks(IF Len(pushed) > max THEN Pop(pushed) ELSE pushed, <<>>)

saveState(us, rs, max, state) ==
    LET pushed == Append(us, cloneState(state))
    IN  Stacks(IF Len(pushed) > max THEN Shift(pushed) ELSE pushed, <<>>)

\* undo that pushes the current state onto the redo stack before it looks at the
\* undo stack.
undoPushesFirst(us, rs, currentState) ==
    IF Len(us) = 0
    THEN [stacks |-> Stacks(us, Append(rs, cloneState(currentState))), ret |-> <<>>]
    ELSE [stacks |-> Stacks(Pop(us), Append(rs, cloneState(currentState))), ret |-> <<Top(us)>>]

\* undo that keeps for redo the state it returns, not the current one.
undoKeepsPrevious(us, rs, currentState) ==
    IF Len(us) = 0
    THEN [stacks |-> Stacks(us, rs), ret |-> <<>>]
    ELSE [stacks |-> Stacks(Pop(us), Append(rs, cloneState(Top(us)))), ret |-> <<Top(us)>>]

\* undo and redo return <<>> for null, <<state>> for a state.
undo(us, rs, currentState) ==
    IF Len(us) = 0
    THEN [stacks |-> Stacks(us, rs), ret |-> <<>>]
    ELSE [stacks |-> Stacks(Pop(us), Append(rs, cloneState(currentState))), ret |-> <<Top(us)>>]

\* redo that returns the top of the redo stack without removing it.
redoKeepsEntry(us, rs, currentState) ==
    IF Len(rs) = 0
    THEN [stacks |-> Stacks(us, rs), ret |-> <<>>]
    ELSE [stacks |-> Stacks(Append(us, cloneState(currentState)), rs), ret |-> <<Top(rs)>>]

redo(us, rs, currentState) ==
    IF Len(rs) = 0
    THEN [stacks |-> Stacks(us, rs), ret |-> <<>>]
    ELSE [stacks |-> Stacks(Append(us, cloneState(currentState)), Pop(rs)), ret |-> <<Top(rs)>>]

clear ==
    Stacks(<<>>, <<>>)

canUndo(us) ==
    Len(us) > 0

canRedo(rs) ==
    Len(rs) > 0

----------------------------------------------------------------------------
(* ImageEditorScreen: what the handlers compute.                            *)

\* new UndoRedoStack(50)
EditorStackSize == 50

\* initialTranslateX, initialTranslateY: refs that are never assigned.
initialTranslateX == I(0)
initialTranslateY == I(0)

\* JavaScript's a % n for n > 0: the remainder has the sign of a.
JsRem(a, n) ==
    IF a >= 0 THEN a % n ELSE -((-a) % n)

\* exifOrientation.ts: the rotation that corrects an EXIF orientation tag.
getRotationForOrientation(orientation) ==
    CASE orientation = 3 -> 180
      [] orientation \in {5, 7, 8} -> 90
      [] orientation = 6 -> -90
      [] OTHER -> 0

\* The remainder alone, which keeps the sign of the rotation.
normalizedOnce(r) ==
    JsRem(r, 360)

\* handleSave's normalizedRotation: ((rotation % 360) + 360) % 360 with JavaScript's %.
normalizedRotation(r) ==
    JsRem(JsRem(r, 360) + 360, 360)

rotateUnnormalised(r) ==
    r + 90

\* handleRotate's new rotation: ((rotation + 90) % 360 + 360) % 360 with JavaScript's %.
rotateBy90(r) ==
    JsRem(JsRem(r + 90, 360) + 360, 360)

\* A snapshot of the scalar fields only, with empty layers.
getStateWithoutLayers ==
    EditorState(rotation, scale, translateX, translateY, cropWidth, cropHeight,
                brightness, contrast, saturation, <<>>, <<>>)

getCurrentEditorState ==
    \* the shared values are read as they stand, the layers are copied
    EditorState(rotation, scale, translateX, translateY, cropWidth, cropHeight,
                brightness, contrast, saturation, drawings, textStickers)

CurrentCrop ==
    Rect(cropX, cropY, cropWidth, cropHeight)

targetAspect(ratio) ==
    CASE ratio = "1:1" -> I(1)
      [] ratio = "4:5" -> Rat(4, 5)
      [] ratio = "16:9" -> Rat(16, 9)
      [] OTHER -> I(1)

\* The steps of updateCropForAspectRatio on the new size, for the target aspect ta.
Size(w, h) ==
    [width |-> w, height |-> h]

\* The side of r that is kept: the height if r is wider than the target.
sizeForAspect(ta, r) ==
    IF Gt(Div(r.width, r.height), ta)
    THEN Size(Mul(r.height, ta), r.height)
    ELSE Size(r.width, Div(r.width, ta))

atMostMaxWidth(ta, sz) ==
    IF Gt(sz.width, Sub(SCREEN_WIDTH, I(40)))
    THEN Size(Sub(SCREEN_WIDTH, I(40)), Div(Sub(SCREEN_WIDTH, I(40)), ta))
    ELSE sz

atMostMaxHeight(ta, sz) ==
    IF Gt(sz.height, Sub(EDITOR_HEIGHT, I(40)))
    THEN Size(Mul(Sub(EDITOR_HEIGHT, I(40)), ta), Sub(EDITOR_HEIGHT, I(40)))
    ELSE sz

atLeastMinWidth(ta, sz) ==
    IF Lt(sz.width, MIN_CROP_SIZE)
    THEN Size(MIN_CROP_SIZE, Div(MIN_CROP_SIZE, ta))
    ELSE sz

atLeastMinHeight(ta, sz) ==
    IF Lt(sz.height, MIN_CROP_SIZE)
    THEN Size(Mul(MIN_CROP_SIZE, ta), MIN_CROP_SIZE)
    ELSE sz

\* The rectangle of size sz around the centre of r.
centredOn(r, sz) ==
    Rect(Sub(Add(r.x, Div(r.width, I(2))), Div(sz.width, I(2))),
         Sub(Add(r.y, Div(r.height, I(2))), Div(sz.height, I(2))),
         sz.width, sz.height)

clampRect(rc) ==
    clampCropToBounds(rc.x, rc.y, rc.width, rc.height)

cropAndBase(rc) ==
    [crop |-> rc, base |-> rc]

\* updateCropForAspectRatio for a locked ratio, reading the crop rectangle r: the
\* target rectangle before it is clamped.
aspectTarget(ratio, r) ==
    centredOn(r, atLeastMinHeight(targetAspect(ratio),
                   atLeastMinWidth(targetAspect(ratio),
                     atMostMaxHeight(targetAspect(ratio),
                       atMostMaxWidth(targetAspect(ratio),
                         sizeForAspect(targetAspect(ratio), r))))))

\* The target of the ratio with the corner of r kept, not its centre.
aspectKeepsCorner(ratio, r) ==
    clampRect([aspectTarget(ratio, r) EXCEPT !.x = r.x, !.y = r.y])

\* updateCropForAspectRatio for a locked ratio: the clamped target rectangle.
updateCropForAspectRatio(ratio, r) ==
    clampRect(aspectTarget(ratio, r))

\* useEffect(..., [aspectRatio, imageSize, mode]) when one of them changed, with the
\* values the handler left: reading the crop rectangle r it leaves r and the base
\* values alone, or replaces both by the target of the locked ratio.
aspectAnimates(ratio, m, size) ==
    /\ Gt(size.width, I(0)) /\ Gt(size.height, I(0))
    /\ m = "crop"
    /\ ratio # "free"

aspectEffect(ratio, m, size, r, base) ==
    IF aspectAnimates(ratio, m, size)
    THEN cropAndBase(updateCropForAspectRatio(ratio, r))
    ELSE [crop |-> r, base |-> base]

BaseCrop ==
    Rect(baseCropX, baseCropY, baseCropWidth, baseCropHeight)

SetCrop(r) ==
    /\ cropX' = r.x /\ cropY' = r.y
    /\ cropWidth' = r.width /\ cropHeight' = r.height

SetBaseCrop(r) ==
    /\ baseCropX' = r.x /\ baseCropY' = r.y
    /\ baseCropWidth' = r.width /\ baseCropHeight' = r.height

LeftHandle(handle) ==
    handle = "topLeft" \/ handle = "bottomLeft"

TopHandle(handle) ==
    handle = "topLeft" \/ handle = "topRight"

\* createCornerHandleGesture(handle).onUpdate with translation (deltaX, deltaY): the
\* clamped rectangle written to the crop values.
cornerOnUpdate(handle, deltaX, deltaY) ==
    LET freeX == IF LeftHandle(handle) THEN Add(baseCropX, deltaX) ELSE baseCropX
        freeY == IF TopHandle(handle) THEN Add(baseCropY, deltaY) ELSE baseCropY
        freeWidth == IF LeftHandle(handle) THEN Sub(baseCropWidth, deltaX)
                                           ELSE Add(baseCropWidth, deltaX)
        freeHeight == IF TopHandle(handle) THEN Sub(baseCropHeight, deltaY)
                                           ELSE Add(baseCropHeight, deltaY)
        ta == targetAspect(aspectRatio)
        fixedCornerX == IF LeftHandle(handle) THEN Add(baseCropX, baseCropWidth) ELSE baseCropX
        fixedCornerY == IF TopHandle(handle) THEN Add(baseCropY, baseCropHeight) ELSE baseCropY
        widthPrimary == Gt(MathAbs(deltaX), MathAbs(deltaY))
        newWidth == IF widthPrimary THEN freeWidth ELSE Mul(freeHeight, ta)
        newHeight == IF widthPrimary THEN Div(freeWidth, ta) ELSE freeHeight
        newX == IF LeftHandle(handle) THEN Sub(fixedCornerX, newWidth) ELSE baseCropX
        newY == IF TopHandle(handle) THEN Sub(fixedCornerY, newHeight) ELSE baseCropY
    IN  IF aspectRatio # "free"
        THEN clampCropToBounds(newX, newY, newWidth, newHeight)
        ELSE clampCropToBounds(freeX, freeY, freeWidth, freeHeight)

\* The translation of a pan update that takes the delta of the drag alone.
panFromDelta(translationX, translationY) ==
    [x |-> translationX, y |-> translationY]

\* The translation a pan update would reach by adding to the current translation.
panAccumulates(translationX, translationY) ==
    [x |-> Add(translateX, translationX), y |-> Add(translateY, translationY)]

\* panGesture.onUpdate with e.translationX, e.translationY: the translation written.
panOnUpdate(translationX, translationY) ==
    [x |-> Add(baseTranslateX, translationX), y |-> Add(baseTranslateY, translationY)]

\* The smallest scale at which the image fills the crop rectangle.
minScaleNow ==
    MathMax(Div(cropWidth, imageSize.width), Div(cropHeight, imageSize.height))

\* A pinch update that keeps the lower limit only.
pinchNoUpperLimit(factor) ==
    MathMax(minScaleNow, Mul(baseScale, factor))

\* pinchGesture.onUpdate with e.scale = factor: the clamped scale.
pinchOnUpdate(factor) ==
    LET newScale == Mul(baseScale, factor)
        minScale == minScaleNow
    IN  MathMax(minScale, MathMin(newScale, I(3)))

----------------------------------------------------------------------------
(* The state of each component before it is used: a specification that    *)
(* exercises one component leaves the others in this state.                *)

ClampIdle ==
    /\ clampArg = Rect(I(0), I(0), I(100), I(100))
    /\ clampRes = <<>>
    /\ clampRes2 = <<>>

RotateIdle ==
    /\ rotateArg = 1
    /\ rotateRun = <<0>>

AspectIdle ==
    /\ aspectArg = [rect |-> Rect(I(0), I(0), I(100), I(100)), ratio |-> "1:1"]
    /\ aspectRes = <<>>

MapIdle ==
    /\ mapArg = [crop |-> Rect(I(0), I(0), I(1), I(1)),
                 params |-> Params(I(1), I(1), I(1), I(1), I(1), I(0), I(0), 0)]
    /\ mapRes = <<>>
    /\ cropRes = <<>>

StackIdle ==
    /\ undoStack = <<>>
    /\ redoStack = <<>>
    /\ maxStackSize = EditorStackSize
    /\ stackLog = <<>>

\* ImageEditorScreen as constructed: not visible, no image, the crop rectangle the
\* default square in the centre of the viewport.
EditorIdle ==
    /\ visible = FALSE
    /\ pendingLoads = <<>>
    /\ imageUri = <<>>
    /\ originalImageUri = <<>>
    /\ imageSize = [width |-> I(0), height |-> I(0)]
    /\ exifOrientation = 1
    /\ rotation = 0
    /\ aspectRatio = "free"
    /\ brightness = 0 /\ contrast = 0 /\ saturation = 0
    /\ mode = "crop"
    /\ activeHandle = "none"
    /\ drawings = <<>> /\ textStickers = <<>>
    /\ scale = I(1) /\ translateX = I(0) /\ translateY = I(0)
    /\ baseScale = I(1) /\ baseTranslateX = I(0) /\ baseTranslateY = I(0)
    /\ cropX = Div(Sub(SCREEN_WIDTH, CROP_SIZE), I(2))
    /\ cropY = Div(Sub(EDITOR_HEIGHT, CROP_SIZE), I(2))
    /\ cropWidth = CROP_SIZE /\ cropHeight = CROP_SIZE
    /\ baseCropX = Div(Sub(SCREEN_WIDTH, CROP_SIZE), I(2))
    /\ baseCropY = Div(Sub(EDITOR_HEIGHT, CROP_SIZE), I(2))
    /\ baseCropWidth = CROP_SIZE /\ baseCropHeight = CROP_SIZE
    /\ initialCropWidth = CROP_SIZE /\ initialCropHeight = CROP_SIZE
    /\ initialScale = I(1)
    /\ panActive = FALSE /\ pinchActive = FALSE
    /\ isDrawing = FALSE /\ pathPoints = <<>>
    /\ stickerView = [x |-> I(0), y |-> I(0), scale |-> I(1), rotation |-> I(0), prop |-> <<>>,
                      active |-> {}, queue |-> <<>>, begun |-> {}, together |-> FALSE,
                      ended |-> [x |-> I(0), y |-> I(0), scale |-> I(1), rotation |-> I(0)]]
    /\ isAnimating = FALSE /\ inFlight = {}
    /\ savePhase = "idle" /\ capturedAnimating = FALSE /\ clock = 0 /\ delayDue = <<>>
    /\ exportRead = <<>> /\ saved = <<>> /\ saveError = FALSE /\ pressed = <<>>
    /\ saveRuns = <<>> /\ onSaveCalls = 0
    /\ panTrace = [startX |-> I(0), startY |-> I(0), deltas |-> <<>>, totalX |-> I(0), totalY |-> I(0),
                   rest |-> <<>>, pans |-> 0, pinches |-> 0, factor |-> <<>>, loaded |-> <<>>]
    /\ edits = 0
    /\ pinchUpdated = FALSE
    /\ sessions = 0

----------------------------------------------------------------------------
(* SpecStack: a stack built with a bound of 1..MaxStackSize, driven by     *)
(* arbitrary calls with snapshots from StackStates.                        *)

MaxStackSize == 2

\* Two snapshots that differ in a scalar, in the drawings and in the stickers.
StackStates ==
    { EditorState(0, I(1), I(0), I(0), I(280), I(280), 0, 0, 0, <<>>, <<>>),
      EditorState(90, Rat(1, 2), I(50), I(-30), I(200), I(100), 10, 0, 0,
                  <<[points |-> <<[x |-> 1, y |-> 2], [x |-> 3, y |-> 4]>>,
                     color |-> "#FF0000", strokeWidth |-> 5]>>,
                  <<[id |-> "sticker_1", text |-> "Tap to edit", x |-> 130, y |-> 245,
                     fontSize |-> 24, color |-> "#FFFFFF", rotation |-> 0, scale |-> 1]>>) }

Logged(op, arg, ret) ==
    LET all == Append(stackLog, [op |-> op, arg |-> arg, ret |-> ret])
    IN  IF Len(all) > 3 THEN Shift(all) ELSE all

InitStack ==
    /\ window = [width |-> 360, height |-> 640]
    /\ ClampIdle
    /\ AspectIdle
    /\ RotateIdle
    /\ MapIdle
    /\ EditorIdle
    /\ undoStack = <<>>
    /\ redoStack = <<>>
    /\ maxStackSize \in 1..MaxStackSize
    /\ stackLog = <<>>

StackSaveState ==
    \E state \in StackStates :
        LET r == saveState(undoStack, redoStack, maxStackSize, state)
        IN  /\ undoStack' = r.undoStack
            /\ redoStack' = r.redoStack
            /\ stackLog' = Logged("saveState", <<state>>, <<>>)
            /\ UNCHANGED <<window, aspectVars, rotateVars, clampVars, mapVars, maxStackSize, editorVars>>

StackUndo ==
    \E currentState \in StackStates :
        LET r == undo(undoStack, redoStack, currentState)
        IN  /\ undoStack' = r.stacks.undoStack
            /\ redoStack' = r.stacks.redoStack
            /\ stackLog' = Logged("undo", <<currentState>>, r.ret)
            /\ UNCHANGED <<window, aspectVars, rotateVars, clampVars, mapVars, maxStackSize, editorVars>>

StackRedo ==
    \E currentState \in StackStates :
        LET r == redo(undoStack, redoStack, currentState)
        IN  /\ undoStack' = r.stacks.undoStack
            /\ redoStack' = r.stacks.redoStack
            /\ stackLog' = Logged("redo", <<currentState>>, r.ret)
            /\ UNCHANGED <<window, aspectVars, rotateVars, clampVars, mapVars, maxStackSize, editorVars>>

StackClear ==
    /\ undoStack' = clear.undoStack
    /\ redoStack' = clear.redoStack
    /\ stackLog' = Logged("clear", <<>>, <<>>)
    /\ UNCHANGED <<window, aspectVars, rotateVars, clampVars, mapVars, maxStackSize, editorVars>>

NextStack ==
    \/ StackSaveState
    \/ StackUndo
    \/ StackRedo
    \/ StackClear

SpecStack == InitStack /\ [][NextStack]_vars

----------------------------------------------------------------------------
(* SpecMap: the two conversions applied to one argument.                   *)

MapImages ==
    { <<I(1), I(1)>>, <<I(3), I(3)>>, <<I(4), I(2)>>, <<I(2), I(6)>> }

MapScales ==
    { Rat(1, 2), I(1), I(2) }

MapTranslations ==
    { <<I(0), I(0)>>, <<I(1), I(-2)>>, <<Rat(-3, 2), I(0)>> }

MapRotations ==
    { 0, 90, 180, 270 }

MapDisplay ==
    <<I(12), I(10)>>

MapParams ==
    { Params(im[1], im[2], MapDisplay[1], MapDisplay[2], s, t[1], t[2], rot) :
        im \in MapImages, s \in MapScales, t \in MapTranslations, rot \in MapRotations }

\* The crop rectangle that is exactly the displayed bounds of the image.
FullDisplayCrop(params) ==
    LET b == calculateImageDisplayBounds(params)
    IN  Rect(b.displayedX, b.displayedY, b.displayedWidth, b.displayedHeight)

MapCrops ==
    { Rect(x, y, w, h) : x \in {I(-2), I(4), I(6), I(11)}, y \in {I(0), I(5)},
                         w \in {I(1), I(5), I(20)}, h \in {Rat(1, 2), I(4)} }

InitMap ==
    /\ window = [width |-> 360, height |-> 640]
    /\ ClampIdle
    /\ AspectIdle
    /\ RotateIdle
    /\ StackIdle
    /\ EditorIdle
    /\ mapArg \in { [crop |-> c, params |-> p] : c \in MapCrops, p \in MapParams }
                  \cup { [crop |-> FullDisplayCrop(p), params |-> p] : p \in MapParams }
    /\ mapRes = <<>>
    /\ cropRes = <<>>

MapScreenToImage ==
    /\ mapRes = <<>>
    /\ mapRes' = <<screenToImageCoordinates(mapArg.crop, mapArg.params)>>
    /\ UNCHANGED <<window, aspectVars, rotateVars, clampVars, mapArg, cropRes, stackVars, editorVars>>

MapCalculateCrop ==
    /\ cropRes = <<>>
    /\ cropRes' = <<calculateCropCoordinates(mapArg.crop, mapArg.params)>>
    /\ UNCHANGED <<window, aspectVars, rotateVars, clampVars, mapArg, mapRes, stackVars, editorVars>>

NextMap ==
    \/ MapScreenToImage
    \/ MapCalculateCrop

SpecMap == InitMap /\ [][NextMap]_vars

----------------------------------------------------------------------------
(* SpecClamp: clampCropToBounds applied to a candidate, then to its result. *)

\* Windows whose editor viewport (width x (height - 120)) is at least 100 px
\* in each dimension, the smallest one exactly 100 x 100.
ClampWindows ==
    { [width |-> 100, height |-> 220],
      [width |-> 150, height |-> 400],
      [width |-> 360, height |-> 640] }

\* Candidate coordinates: far outside on both sides, on the edges, inside.
ClampPositions ==
    { I(-500), I(-30), I(0), Rat(81, 2), I(60), I(300), I(360), I(700) }

\* Candidate sizes: negative, zero, undersized, the minimum, ordinary, oversized.
ClampSizes ==
    { I(-40), I(0), I(60), I(100), Rat(401, 2), I(900) }

InitClamp ==
    /\ window \in ClampWindows
    /\ clampArg \in { Rect(x, y, w, h) : x \in ClampPositions, y \in {I(-30), I(60), I(700)},
                                         w \in ClampSizes, h \in {I(-40), I(100), I(900)} }
                \cup { Rect(x, y, w, h) : x \in {I(-30), I(60), I(700)}, y \in ClampPositions,
                                          w \in {I(-40), I(100), I(900)}, h \in ClampSizes }
    /\ clampRes = <<>>
    /\ clampRes2 = <<>>
    /\ AspectIdle
    /\ RotateIdle
    /\ MapIdle
    /\ StackIdle
    /\ EditorIdle

ClampOnce ==
    /\ clampRes = <<>>
    /\ clampRes' = <<clampCropToBounds(clampArg.x, clampArg.y, clampArg.width, clampArg.height)>>
    /\ UNCHANGED <<window, aspectVars, rotateVars, clampArg, clampRes2, mapVars, stackVars, editorVars>>

ClampAgain ==
    /\ clampRes # <<>>
    /\ clampRes2 = <<>>
    /\ clampRes2' = <<clampCropToBounds(clampRes[1].x, clampRes[1].y,
                                        clampRes[1].width, clampRes[1].height)>>
    /\ UNCHANGED <<window, aspectVars, rotateVars, clampArg, clampRes, mapVars, stackVars, editorVars>>

NextClamp ==
    \/ ClampOnce
    \/ ClampAgain

SpecClamp == InitClamp /\ [][NextClamp]_vars

----------------------------------------------------------------------------
(* ImageEditorScreen driven by its user and by the completion of the image  *)
(* loads it started.  Buttons are pressed between gesture sessions; the     *)
(* image pan and pinch may overlap; a corner drag runs alone.               *)

MaxPending == 1
MaxPan == 50
MaxEdits == 2
MaxSessions == 2

EditorWindow ==
    [width |-> 360, height |-> 640]

EditorImages ==
    { [uri |-> "file:///wide.jpg", width |-> 560, height |-> 280],
      [uri |-> "file:///icon.png", width |-> 50, height |-> 50] }

AspectRatios ==
    {"free", "1:1", "4:5", "16:9"}

CornerHandles ==
    {"topLeft", "topRight", "bottomLeft", "bottomRight"}

CornerDeltas ==
    { <<200, 200>>, <<-60, -20>> }

PanDeltas ==
    { <<50, -30>>, <<-20, 10>> }

PinchFactors ==
    { Rat(1, 2), I(3) }

otherVars == <<window, clampVars, aspectVars, rotateVars, mapVars, maxStackSize, stackLog>>

\* The history after a handler other than a gesture has written the transform.
TranslationWritten(x, y) ==
    [panTrace EXCEPT !.totalX = x, !.totalY = y, !.rest = <<>>]

\* The history after a pan session has ended: its final delta is added.
SessionEnded ==
    LET n == Len(panTrace.deltas)
    IN  IF n = 0 THEN panTrace
        ELSE [panTrace EXCEPT !.totalX = Add(@, I(panTrace.deltas[n][1])),
                              !.totalY = Add(@, I(panTrace.deltas[n][2]))]

\* What the Reset button is to bring back: the rotation, the transform, the crop
\* rectangle, the filters and the layers.
Resettable ==
    [rotation |-> rotation, scale |-> scale, translateX |-> translateX, translateY |-> translateY,
     cropX |-> cropX, cropY |-> cropY, cropWidth |-> cropWidth, cropHeight |-> cropHeight,
     brightness |-> brightness, contrast |-> contrast, saturation |-> saturation,
     drawings |-> drawings, textStickers |-> textStickers]

\* The transform of the image: the shared values and the bases of the gestures.
TransformState ==
    [scale |-> scale, translateX |-> translateX, translateY |-> translateY,
     baseScale |-> baseScale, baseTranslateX |-> baseTranslateX, baseTranslateY |-> baseTranslateY]

\* The history after a pan (isPan) or a pinch session has begun: begun with no other
\* session running it notes the transform, begun beside one it is counted with it.
SessionBegun(isPan) ==
    LET alone == ~panActive /\ ~pinchActive
    IN  [panTrace EXCEPT !.rest = IF alone THEN <<TransformState>> ELSE @,
                         !.pans = (IF alone THEN 0 ELSE @) + (IF isPan THEN 1 ELSE 0),
                         !.pinches = (IF alone THEN 0 ELSE @) + (IF isPan THEN 0 ELSE 1),
                         !.factor = IF isPan THEN @ ELSE <<>>]

NoGesture ==
    ~panActive /\ ~pinchActive /\ activeHandle = "none"

\* The moments at which the user starts something new: no stroke being drawn, no
\* animation in flight, no export under way.
Quiet ==
    ~isDrawing /\ inFlight = {} /\ savePhase = "idle"

InitEditor ==
    /\ window = EditorWindow
    /\ ClampIdle
    /\ AspectIdle
    /\ RotateIdle
    /\ MapIdle
    /\ StackIdle
    /\ EditorIdle

\* The parent shows the editor: useEffect([visible, sourceUri]) calls loadImage, which
\* runs up to `await getImageDimensions(uri)`.
OpenEditor ==
    \E img \in EditorImages :
        /\ ~visible
        /\ Len(pendingLoads) < MaxPending
        /\ visible' = TRUE
        /\ originalImageUri' = <<img.uri>>
        /\ pendingLoads' = Append(pendingLoads, img)
        /\ pinchUpdated' = FALSE
        /\ onSaveCalls' = 0
        /\ UNCHANGED <<drawVars, animVars, savePhase, capturedAnimating, clock, delayDue,
                       exportRead, saved, saveError, pressed, saveRuns>>
        /\ UNCHANGED <<otherVars, undoStack, redoStack, imageUri, imageSize, exifOrientation,
                       rotation, aspectRatio, filterVars, mode, layerVars, transformVars,
                       baseTransformVars, cropVars, baseCropVars, initialVars, sessionVars,
                       traceVars>>

\* getImageDimensions resolves and loadImage runs to its end.  The image size is a
\* new object, so the aspect effect runs: before or after the rest of loadImage
\* has set the crop size, as the renderer schedules it.
LoadComplete ==
    \E i \in DOMAIN pendingLoads, effectFirst \in BOOLEAN :
        LET img == pendingLoads[i]
            size == [width |-> I(img.width), height |-> I(img.height)]
            scaleToFit == MathMin(Div(CROP_SIZE, size.width), Div(CROP_SIZE, size.height))
            early == aspectEffect(aspectRatio, mode, size, CurrentCrop, BaseCrop)
            late == aspectEffect(aspectRatio, mode, size,
                                 Rect(cropX, cropY, CROP_SIZE, CROP_SIZE), BaseCrop)
        IN  /\ pendingLoads' = SubSeq(pendingLoads, 1, i - 1)
                                 \o SubSeq(pendingLoads, i + 1, Len(pendingLoads))
            /\ imageSize' = size
            /\ imageUri' = <<img.uri>>
            /\ exifOrientation' = 1
            /\ IF effectFirst
               THEN /\ SetCrop(Rect(early.crop.x, early.crop.y, CROP_SIZE, CROP_SIZE))
                    /\ SetBaseCrop(early.base)
               ELSE /\ SetCrop(late.crop)
                    /\ SetBaseCrop(late.base)
            /\ initialCropWidth' = CROP_SIZE
            /\ initialCropHeight' = CROP_SIZE
            /\ scale' = scaleToFit
            /\ baseScale' = scaleToFit
            /\ initialScale' = scaleToFit
            /\ pinchUpdated' = FALSE
            /\ inFlight' = IF aspectAnimates(aspectRatio, mode, size)
                         THEN inFlight \cup {"aspect"} ELSE inFlight
            /\ UNCHANGED <<drawVars, isAnimating, saveVars>>
            /\ UNCHANGED <<otherVars, undoStack, redoStack, visible, originalImageUri, rotation,
                           aspectRatio, filterVars, mode, layerVars, translateX, translateY,
                           baseTranslateX, baseTranslateY, sessionVars, sessions, edits>>
            /\ panTrace' = [panTrace EXCEPT !.rest = <<>>, !.loaded = <<Resettable'>>]

\* handleClose: resetEditor, then the parent hides the editor and the effect on
\* `visible` runs resetEditor again.
handleClose ==
    /\ visible
    /\ NoGesture
    /\ Quiet
    /\ visible' = FALSE
    /\ imageUri' = <<>>
    /\ originalImageUri' = <<>>
    /\ imageSize' = [width |-> I(0), height |-> I(0)]
    /\ rotation' = 0
    /\ aspectRatio' = "free"
    /\ brightness' = 0 /\ contrast' = 0 /\ saturation' = 0
    /\ mode' = "crop"
    /\ activeHandle' = "none"
    /\ drawings' = <<>> /\ textStickers' = <<>>
    /\ exifOrientation' = 1
    /\ scale' = I(1) /\ translateX' = I(0) /\ translateY' = I(0)
    /\ undoStack' = clear.undoStack
    /\ redoStack' = clear.redoStack
    /\ pinchUpdated' = FALSE
    /\ UNCHANGED <<drawVars, animVars, saveVars>>
    /\ UNCHANGED <<otherVars, pendingLoads, baseTransformVars, cropVars, baseCropVars,
                   initialVars, panActive, pinchActive, sessions, edits>>
    /\ panTrace' = TranslationWritten(I(0), I(0))

\* saveStateBeforeAction
SaveCurrent ==
    LET r == saveState(undoStack, redoStack, maxStackSize, getCurrentEditorState)
    IN  /\ undoStack' = r.undoStack
        /\ redoStack' = r.redoStack

handleRotate ==
    /\ visible
    /\ NoGesture
    /\ Quiet
    /\ edits < MaxEdits
    /\ SaveCurrent
    /\ rotation' = rotateBy90(rotation)
    /\ edits' = edits + 1
    /\ pinchUpdated' = FALSE
    /\ isAnimating' = TRUE
    /\ inFlight' = inFlight \cup {"rotate"}
    /\ UNCHANGED <<drawVars, saveVars>>
    /\ UNCHANGED <<otherVars, visible, pendingLoads, imageVars, aspectRatio, filterVars, mode,
                   layerVars, transformVars, baseTransformVars, cropVars, baseCropVars,
                   initialVars, sessionVars, panTrace, sessions>>

handleReset ==
    /\ visible
    /\ NoGesture
    /\ Quiet
    /\ edits < MaxEdits
    /\ SaveCurrent
    /\ rotation' = 0
    /\ brightness' = 0 /\ contrast' = 0 /\ saturation' = 0
    /\ drawings' = <<>> /\ textStickers' = <<>>
    /\ scale' = initialScale
    /\ translateX' = initialTranslateX
    /\ translateY' = initialTranslateY
    /\ cropWidth' = initialCropWidth
    /\ cropHeight' = initialCropHeight
    /\ edits' = edits + 1
    /\ pinchUpdated' = FALSE
    /\ inFlight' = inFlight \cup {"reset"}
    /\ UNCHANGED <<drawVars, isAnimating, saveVars>>
    /\ UNCHANGED <<otherVars, visible, pendingLoads, imageVars, aspectRatio, mode,
                   baseTransformVars, cropX, cropY, baseCropVars, initialVars, sessionVars,
                   sessions>>
    /\ panTrace' = TranslationWritten(initialTranslateX, initialTranslateY)

applyEditorState(state) ==
    /\ rotation' = state.rotation
    /\ brightness' = state.brightness
    /\ contrast' = state.contrast
    /\ saturation' = state.saturation
    /\ drawings' = state.drawings
    /\ textStickers' = state.textStickers
    /\ scale' = state.scale
    /\ translateX' = state.translateX
    /\ translateY' = state.translateY
    /\ cropWidth' = state.cropWidth
    /\ cropHeight' = state.cropHeight

handleUndo ==
    /\ visible
    /\ NoGesture
    /\ Quiet
    /\ canUndo(undoStack)
    /\ LET r == undo(undoStack, redoStack, getCurrentEditorState)
       IN  /\ undoStack' = r.stacks.undoStack
           /\ redoStack' = r.stacks.redoStack
           /\ applyEditorState(r.ret[1])
           /\ panTrace' = TranslationWritten(r.ret[1].translateX, r.ret[1].translateY)
    /\ pinchUpdated' = FALSE
    /\ UNCHANGED <<drawVars, animVars, saveVars>>
    /\ UNCHANGED <<otherVars, visible, pendingLoads, imageVars, aspectRatio, mode,
                   baseTransformVars, cropX, cropY, baseCropVars, initialVars, sessionVars,
                   sessions, edits>>

handleRedo ==
    /\ visible
    /\ NoGesture
    /\ Quiet
    /\ canRedo(redoStack)
    /\ LET r == redo(undoStack, redoStack, getCurrentEditorState)
       IN  /\ undoStack' = r.stacks.undoStack
           /\ redoStack' = r.stacks.redoStack
           /\ applyEditorState(r.ret[1])
           /\ panTrace' = TranslationWritten(r.ret[1].translateX, r.ret[1].translateY)
    /\ pinchUpdated' = FALSE
    /\ UNCHANGED <<drawVars, animVars, saveVars>>
    /\ UNCHANGED <<otherVars, visible, pendingLoads, imageVars, aspectRatio, mode,
                   baseTransformVars, cropX, cropY, baseCropVars, initialVars, sessionVars,
                   sessions, edits>>

\* onPress of an aspect ratio button, and the aspect effect when the ratio changed.
SelectAspectRatio ==
    \E ratio \in AspectRatios :
        LET e == IF ratio # aspectRatio
                 THEN aspectEffect(ratio, mode, imageSize, CurrentCrop, BaseCrop)
                 ELSE [crop |-> CurrentCrop, base |-> BaseCrop]
        IN  /\ visible
            /\ NoGesture
            /\ Quiet
            /\ mode = "crop"
            /\ edits < MaxEdits
            /\ SaveCurrent
            /\ aspectRatio' = ratio
            /\ SetCrop(e.crop)
            /\ SetBaseCrop(e.base)
            /\ edits' = edits + 1
            /\ pinchUpdated' = FALSE
            /\ inFlight' = IF ratio # aspectRatio /\ aspectAnimates(ratio, mode, imageSize)
                         THEN inFlight \cup {"aspect"} ELSE inFlight
            /\ UNCHANGED <<drawVars, isAnimating, saveVars>>
            /\ UNCHANGED <<otherVars, visible, pendingLoads, imageVars, rotation, filterVars,
                           mode, layerVars, transformVars, baseTransformVars, initialVars,
                           sessionVars, panTrace, sessions>>

\* onPress of the Crop, Adjust and Draw buttons, and the aspect effect when the mode
\* changed.
SetMode ==
    \E m \in {"crop", "adjust", "draw"} :
        LET e == IF m # mode
                 THEN aspectEffect(aspectRatio, m, imageSize, CurrentCrop, BaseCrop)
                 ELSE [crop |-> CurrentCrop, base |-> BaseCrop]
        IN  /\ visible
            /\ NoGesture
            /\ Quiet
            /\ edits < MaxEdits
            /\ IF mode # m
               THEN SaveCurrent
               ELSE UNCHANGED <<undoStack, redoStack>>
            /\ mode' = m
            /\ SetCrop(e.crop)
            /\ SetBaseCrop(e.base)
            /\ edits' = edits + 1
            /\ pinchUpdated' = FALSE
            /\ inFlight' = IF m # mode /\ aspectAnimates(aspectRatio, m, imageSize)
                         THEN inFlight \cup {"aspect"} ELSE inFlight
            /\ UNCHANGED <<drawVars, isAnimating, saveVars>>
            /\ UNCHANGED <<otherVars, visible, pendingLoads, imageVars, rotation, aspectRatio,
                           filterVars, layerVars, transformVars, baseTransformVars,
                           initialVars, sessionVars, panTrace, sessions>>

\* The image gestures are mounted while an image is shown outside draw and text mode.
ImageGesturesMounted ==
    /\ visible
    /\ imageUri # <<>>
    /\ mode # "draw" /\ mode # "text"

\* A pan onStart that stores every base value, the base of the pinch included.
PanStartStoresScale ==
    /\ ImageGesturesMounted
    /\ Quiet
    /\ ~panActive
    /\ activeHandle = "none"
    /\ sessions < MaxSessions
    /\ sessions' = sessions + 1
    /\ baseTranslateX' = translateX
    /\ baseTranslateY' = translateY
    /\ baseScale' = scale
    /\ panActive' = TRUE
    /\ panTrace' = [SessionBegun(TRUE) EXCEPT !.startX = translateX, !.startY = translateY, !.deltas = <<>>]
    /\ pinchUpdated' = FALSE
    /\ UNCHANGED <<drawVars, animVars, saveVars>>
    /\ UNCHANGED <<otherVars, undoStack, redoStack, visible, pendingLoads, imageVars, rotation,
                   aspectRatio, filterVars, mode, layerVars, transformVars,
                   cropVars, baseCropVars, initialVars, pinchActive, activeHandle, edits>>

PanStart ==
    /\ ImageGesturesMounted
    /\ Quiet
    /\ ~panActive
    /\ activeHandle = "none"
    /\ sessions < MaxSessions
    /\ sessions' = sessions + 1
    /\ baseTranslateX' = translateX
    /\ baseTranslateY' = translateY
    /\ panActive' = TRUE
    /\ panTrace' = [SessionBegun(TRUE) EXCEPT !.startX = translateX, !.startY = translateY, !.deltas = <<>>]
    /\ pinchUpdated' = FALSE
    /\ UNCHANGED <<drawVars, animVars, saveVars>>
    /\ UNCHANGED <<otherVars, undoStack, redoStack, visible, pendingLoads, imageVars, rotation,
                   aspectRatio, filterVars, mode, layerVars, transformVars, baseScale,
                   cropVars, baseCropVars, initialVars, pinchActive, activeHandle, edits>>

PanUpdate ==
    \E d \in PanDeltas :
        LET all == Append(panTrace.deltas, d)
            t == panOnUpdate(I(d[1]), I(d[2]))
        IN  /\ panActive
            /\ Le(MathAbs(t.x), I(MaxPan))
            /\ Le(MathAbs(t.y), I(MaxPan))
            /\ translateX' = t.x
            /\ translateY' = t.y
            /\ panTrace' = [panTrace EXCEPT !.deltas = IF Len(all) > 2 THEN Shift(all) ELSE all]
            /\ pinchUpdated' = FALSE
            /\ UNCHANGED <<drawVars, animVars, saveVars>>
            /\ UNCHANGED <<otherVars, undoStack, redoStack, visible, pendingLoads, imageVars,
                           rotation, aspectRatio, filterVars, mode, layerVars, scale,
                           baseTransformVars, cropVars, baseCropVars, initialVars, sessionVars,
                           sessions, edits>>

PanEnd ==
    /\ panActive
    /\ baseTranslateX' = translateX
    /\ baseTranslateY' = translateY
    /\ panActive' = FALSE
    /\ pinchUpdated' = FALSE
    /\ isAnimating' = TRUE
    /\ inFlight' = inFlight \cup {"panX", "panY"}
    /\ UNCHANGED <<drawVars, saveVars>>
    /\ UNCHANGED <<otherVars, undoStack, redoStack, visible, pendingLoads, imageVars, rotation,
                   aspectRatio, filterVars, mode, layerVars, transformVars, baseScale,
                   cropVars, baseCropVars, initialVars, pinchActive, activeHandle, sessions, edits>>
    /\ panTrace' = SessionEnded

PinchStart ==
    /\ ImageGesturesMounted
    /\ Quiet
    /\ ~pinchActive
    /\ activeHandle = "none"
    /\ sessions < MaxSessions
    /\ sessions' = sessions + 1
    /\ baseScale' = scale
    /\ pinchActive' = TRUE
    /\ pinchUpdated' = FALSE
    /\ UNCHANGED <<drawVars, animVars, saveVars>>
    /\ UNCHANGED <<otherVars, undoStack, redoStack, visible, pendingLoads, imageVars, rotation,
                   aspectRatio, filterVars, mode, layerVars, transformVars, baseTranslateX,
                   baseTranslateY, cropVars, baseCropVars, initialVars, panActive,
                   activeHandle, edits>>
    /\ panTrace' = SessionBegun(FALSE)

PinchUpdate ==
    \E factor \in PinchFactors :
        /\ pinchActive
        /\ scale' = pinchOnUpdate(factor)
        /\ pinchUpdated' = TRUE
        /\ panTrace' = [panTrace EXCEPT !.factor = <<factor>>]
        /\ UNCHANGED <<drawVars, animVars, saveVars>>
        /\ UNCHANGED <<otherVars, undoStack, redoStack, visible, pendingLoads, imageVars,
                       rotation, aspectRatio, filterVars, mode, layerVars, translateX,
                       translateY, baseTransformVars, cropVars, baseCropVars, initialVars,
                       sessionVars, sessions, edits>>

PinchEnd ==
    /\ pinchActive
    /\ baseScale' = scale
    /\ pinchActive' = FALSE
    /\ pinchUpdated' = FALSE
    /\ isAnimating' = TRUE
    /\ inFlight' = inFlight \cup {"pinch"}
    /\ UNCHANGED <<drawVars, saveVars>>
    /\ UNCHANGED <<otherVars, undoStack, redoStack, visible, pendingLoads, imageVars, rotation,
                   aspectRatio, filterVars, mode, layerVars, transformVars, baseTranslateX,
                   baseTranslateY, cropVars, baseCropVars, initialVars, panActive,
                   activeHandle, traceVars>>

\* createCornerHandleGesture(handle): the handles are mounted in crop mode.
CornerStart ==
    \E handle \in CornerHandles :
        /\ visible
        /\ imageUri # <<>>
        /\ mode = "crop"
        /\ NoGesture
        /\ Quiet
        /\ edits < MaxEdits
        /\ edits' = edits + 1
        /\ SetBaseCrop(CurrentCrop)
        /\ activeHandle' = handle
        /\ pinchUpdated' = FALSE
        /\ UNCHANGED <<drawVars, animVars, saveVars>>
        /\ UNCHANGED <<otherVars, undoStack, redoStack, visible, pendingLoads, imageVars,
                       rotation, aspectRatio, filterVars, mode, layerVars, transformVars,
                       baseTransformVars, cropVars, initialVars, panActive, pinchActive,
                       panTrace, sessions>>

CornerUpdateBy(d) ==
    /\ activeHandle # "none"
    /\ SetCrop(cornerOnUpdate(activeHandle, I(d[1]), I(d[2])))
    /\ pinchUpdated' = FALSE
    /\ UNCHANGED <<drawVars, animVars, saveVars>>
    /\ UNCHANGED <<otherVars, undoStack, redoStack, visible, pendingLoads, imageVars,
                   rotation, aspectRatio, filterVars, mode, layerVars, transformVars,
                   baseTransformVars, baseCropVars, initialVars, sessionVars, traceVars>>

CornerUpdate ==
    \E d \in CornerDeltas : CornerUpdateBy(d)

CornerEnd ==
    /\ activeHandle # "none"
    /\ SetBaseCrop(CurrentCrop)
    /\ activeHandle' = "none"
    /\ pinchUpdated' = FALSE
    /\ UNCHANGED <<drawVars, animVars, saveVars>>
    /\ UNCHANGED <<otherVars, undoStack, redoStack, visible, pendingLoads, imageVars, rotation,
                   aspectRatio, filterVars, mode, layerVars, transformVars, baseTransformVars,
                   cropVars, initialVars, panActive, pinchActive, traceVars>>

\* The animations the handlers start.  The two pan springs are told apart because
\* only the one on translateX reports its end; the springs Reset starts together
\* and the springs of the crop rectangle are one entry each, in flight until the
\* last of them ends.
Animations ==
    {"panX", "panY", "pinch", "rotate", "reset", "aspect"}

\* The animations whose end callback calls setIsAnimating(false).
Reporting ==
    {"panX", "pinch", "rotate"}

\* An animation reaches its target; its callback, if it has one, runs.
AnimationFinish ==
    \E a \in inFlight :
        /\ inFlight' = inFlight \ {a}
        /\ isAnimating' = IF a \in Reporting THEN FALSE ELSE isAnimating
        /\ pinchUpdated' = FALSE
        /\ UNCHANGED <<otherVars, undoStack, redoStack, visible, pendingLoads, imageVars,
                       rotation, aspectRatio, filterVars, mode, layerVars, transformVars,
                       baseTransformVars, cropVars, baseCropVars, initialVars, sessionVars,
                       traceVars, drawVars, saveVars>>

\* SpecCrop: the buttons and the corner drags, everything that writes the crop
\* rectangle.
NextCrop ==
    \/ OpenEditor
    \/ LoadComplete
    \/ handleClose
    \/ handleRotate
    \/ handleReset
    \/ handleUndo
    \/ handleRedo
    \/ SelectAspectRatio
    \/ SetMode
    \/ CornerStart
    \/ CornerUpdate
    \/ CornerEnd
    \/ AnimationFinish

SpecCrop == InitEditor /\ [][NextCrop]_vars

\* The drawing layer and the text stickers.
MaxPoints == 2

DrawPoints ==
    { [x |-> 10, y |-> 20], [x |-> 30, y |-> 40] }

StickerMoves ==
    { [x |-> I(40), y |-> I(60)], [x |-> I(200), y |-> I(300)] }

\* DrawingCanvas is mounted in draw mode, over a loaded image.
DrawingMounted ==
    /\ visible
    /\ imageUri # <<>>
    /\ mode = "draw"

\* drawingGesture.onStart, and handleDrawingStart through runOnJS.
DrawingStart ==
    \E pt \in DrawPoints :
        /\ DrawingMounted
        /\ NoGesture
        /\ Quiet
        /\ edits < MaxEdits
        /\ isDrawing' = TRUE
        /\ pathPoints' = <<pt>>
        /\ SaveCurrent
        /\ edits' = edits + 1
        /\ pinchUpdated' = FALSE
        /\ UNCHANGED <<otherVars, visible, pendingLoads, imageVars, rotation, aspectRatio,
                       filterVars, mode, layerVars, transformVars, baseTransformVars,
                       cropVars, baseCropVars, initialVars, sessionVars, panTrace, sessions,
                       stickerView, animVars, saveVars>>

\* drawingGesture.onUpdate
DrawingUpdate ==
    \E pt \in DrawPoints :
        /\ isDrawing
        /\ Len(pathPoints) < MaxPoints
        /\ pathPoints' = Append(pathPoints, pt)
        /\ pinchUpdated' = FALSE
        /\ UNCHANGED <<otherVars, undoStack, redoStack, visible, pendingLoads, imageVars,
                       rotation, aspectRatio, filterVars, mode, layerVars, transformVars,
                       baseTransformVars, cropVars, baseCropVars, initialVars, sessionVars,
                       traceVars, isDrawing, stickerView, animVars, saveVars>>

\* drawingGesture.onEnd, then handlePathComplete and handleDrawingComplete.  The id
\* of the path is unique: the number of the stroke's state-saving step stands for it.
DrawingEnd ==
    /\ isDrawing
    /\ drawings' = IF Len(pathPoints) > 0
                   THEN Append(drawings, [id |-> edits, points |-> pathPoints,
                                          color |-> "#FF0000", strokeWidth |-> 5])
                   ELSE drawings
    /\ pathPoints' = <<>>
    /\ isDrawing' = FALSE
    /\ pinchUpdated' = FALSE
    /\ UNCHANGED <<otherVars, undoStack, redoStack, visible, pendingLoads, imageVars,
                   rotation, aspectRatio, filterVars, mode, textStickers, transformVars,
                   baseTransformVars, cropVars, baseCropVars, initialVars, sessionVars,
                   traceVars, stickerView, animVars, saveVars>>

\* The Text button.  The id of the sticker is unique: the number of this
\* state-saving step stands for it.
handleAddTextSticker ==
    /\ visible
    /\ NoGesture
    /\ Quiet
    /\ edits < MaxEdits
    /\ SaveCurrent
    /\ textStickers' = Append(textStickers,
                              [id |-> edits + 1, text |-> "Tap to edit",
                               x |-> Sub(Div(SCREEN_WIDTH, I(2)), I(50)),
                               y |-> Sub(Div(EDITOR_HEIGHT, I(2)), I(15)),
                               fontSize |-> 24, color |-> "#FFFFFF",
                               rotation |-> I(0), scale |-> I(1)])
    /\ mode' = "text"
    /\ edits' = edits + 1
    /\ pinchUpdated' = FALSE
    /\ UNCHANGED <<otherVars, visible, pendingLoads, imageVars, rotation, aspectRatio,
                   filterVars, drawings, transformVars, baseTransformVars, cropVars,
                   baseCropVars, initialVars, sessionVars, panTrace, sessions, drawVars,
                   animVars, saveVars>>

\* A sticker reports the start of a drag or an edit.
handleStickerUpdateStart ==
    /\ visible
    /\ textStickers # <<>>
    /\ NoGesture
    /\ Quiet
    /\ edits < MaxEdits
    /\ SaveCurrent
    /\ edits' = edits + 1
    /\ pinchUpdated' = FALSE
    /\ UNCHANGED <<otherVars, visible, pendingLoads, imageVars, rotation, aspectRatio,
                   filterVars, mode, layerVars, transformVars, baseTransformVars, cropVars,
                   baseCropVars, initialVars, sessionVars, panTrace, sessions, drawVars,
                   animVars, saveVars>>

\* A sticker reports its new record: here, a new position.
handleStickerUpdate ==
    \E i \in DOMAIN textStickers, pos \in StickerMoves :
        /\ visible
        /\ textStickers' = [textStickers EXCEPT ![i] = [@ EXCEPT !.x = pos.x, !.y = pos.y]]
        /\ pinchUpdated' = FALSE
        /\ UNCHANGED <<otherVars, undoStack, redoStack, visible, pendingLoads, imageVars,
                       rotation, aspectRatio, filterVars, mode, drawings, transformVars,
                       baseTransformVars, cropVars, baseCropVars, initialVars, sessionVars,
                       traceVars, drawVars, animVars, saveVars>>

handleStickerDelete ==
    \E i \in DOMAIN textStickers :
        /\ visible
        /\ NoGesture
        /\ Quiet
        /\ edits < MaxEdits
        /\ SaveCurrent
        /\ textStickers' = SubSeq(textStickers, 1, i - 1)
                             \o SubSeq(textStickers, i + 1, Len(textStickers))
        /\ edits' = edits + 1
        /\ pinchUpdated' = FALSE
        /\ UNCHANGED <<otherVars, visible, pendingLoads, imageVars, rotation, aspectRatio,
                       filterVars, mode, drawings, transformVars, baseTransformVars,
                       cropVars, baseCropVars, initialVars, sessionVars, panTrace, sessions,
                       drawVars, animVars, saveVars>>

\* SpecLayers: the buttons, the drawing strokes and the stickers, everything that
\* saves a snapshot, with undo and redo.
NextLayers ==
    \/ OpenEditor
    \/ LoadComplete
    \/ handleClose
    \/ handleRotate
    \/ handleReset
    \/ handleUndo
    \/ handleRedo
    \/ SelectAspectRatio
    \/ SetMode
    \/ DrawingStart
    \/ DrawingUpdate
    \/ DrawingEnd
    \/ handleAddTextSticker
    \/ handleStickerUpdateStart
    \/ handleStickerUpdate
    \/ handleStickerDelete
    \/ AnimationFinish

SpecLayers == InitEditor /\ [][NextLayers]_vars

\* SpecGesture: the composed pan and pinch of the image, on the images the editor
\* loads.
NextGesture ==
    \/ OpenEditor
    \/ LoadComplete
    \/ handleClose
    \/ PanStart
    \/ PanUpdate
    \/ PanEnd
    \/ PinchStart
    \/ PinchUpdate
    \/ PinchEnd
    \/ AnimationFinish

SpecGesture == InitEditor /\ [][NextGesture]_vars

----------------------------------------------------------------------------
(* SpecSave: the Done button.  handleSave waits for the animations with     *)
(* waitForAnimations, reads the shared values, captures the crop area and   *)
(* hands the media record to onSave.  Time is counted in ms from the press  *)
(* and advances in steps of the polling interval.                           *)

SettleDelay == 100

PollInterval == 50

WaitTimeout == 2000

SavePhases ==
    { "idle",        \* no handleSave is running
      "delay",       \* waitForAnimations found isAnimating false: setTimeout(resolve, 100) pending
      "polling",     \* the interval and the 2 s timeout are armed
      "settling",    \* the interval saw isAnimating false: setTimeout(resolve, 100) and the timeout pending
      "capture" }    \* waitForAnimations resolved and the values are read: capture and file work ahead

\* The time the timeout armed by a waitForAnimations starting at pressedAt fires.
timeoutDueLate(pressedAt) ==
    pressedAt + WaitTimeout + PollInterval

timeoutDue(pressedAt) ==
    pressedAt + WaitTimeout

\* What a retry of the export depends on: the edits, both stacks, the image and
\* the record of the last onSave call.
EditsHeld ==
    [ visible |-> visible, imageUri |-> imageUri, originalImageUri |-> originalImageUri,
      imageSize |-> imageSize, rotation |-> rotation, aspectRatio |-> aspectRatio,
      mode |-> mode, scale |-> scale, translateX |-> translateX, translateY |-> translateY,
      crop |-> CurrentCrop, brightness |-> brightness, contrast |-> contrast,
      saturation |-> saturation, drawings |-> drawings, textStickers |-> textStickers,
      undoStack |-> undoStack, redoStack |-> redoStack, saved |-> saved ]

\* The Done button: handleSave up to the timers waitForAnimations arms.  The
\* closure of this render holds the isAnimating the interval will read.
handleSave ==
    /\ visible
    /\ NoGesture
    /\ ~isDrawing
    /\ savePhase = "idle"
    /\ edits < MaxEdits
    /\ edits' = edits + 1
    /\ imageUri # <<>>
    /\ originalImageUri # <<>>
    /\ imageSize.width # I(0)
    /\ imageSize.height # I(0)
    /\ capturedAnimating' = isAnimating
    /\ clock' = 0
    /\ IF ~isAnimating
       THEN /\ savePhase' = "delay"
            /\ delayDue' = <<SettleDelay>>
       ELSE /\ savePhase' = "polling"
            /\ delayDue' = <<>>
    /\ exportRead' = <<>>
    /\ saveError' = FALSE
    /\ pressed' = <<EditsHeld>>
    /\ pinchUpdated' = FALSE
    /\ UNCHANGED <<otherVars, undoStack, redoStack, visible, pendingLoads, imageVars,
                   rotation, aspectRatio, filterVars, mode, layerVars, transformVars,
                   baseTransformVars, cropVars, baseCropVars, initialVars, sessionVars,
                   panTrace, sessions, drawVars, animVars, saved, saveRuns, onSaveCalls>>

\* The time of the next timer whose callback does something.  A run of the
\* interval callback that finds the isAnimating of its closure true changes
\* nothing and is passed over.
nextDue ==
    CASE savePhase = "delay" -> delayDue[1]
      [] savePhase = "polling" ->
            IF capturedAnimating THEN timeoutDue(0) ELSE clock + PollInterval
      [] savePhase = "settling" ->
            IF delayDue[1] < timeoutDue(0) THEN delayDue[1] ELSE timeoutDue(0)
      [] OTHER -> clock

\* Time passes up to the next timer.  If that is a run of the interval callback
\* that finds isAnimating false, the callback clears the interval and arms
\* setTimeout(resolve, 100).
ClockTick ==
    /\ savePhase \in {"delay", "polling", "settling"}
    /\ clock < nextDue
    /\ clock' = nextDue
    /\ IF savePhase = "polling" /\ ~capturedAnimating
       THEN /\ savePhase' = "settling"
            /\ delayDue' = <<clock' + SettleDelay>>
       ELSE UNCHANGED <<savePhase, delayDue>>
    /\ pinchUpdated' = FALSE
    /\ UNCHANGED <<otherVars, undoStack, redoStack, visible, pendingLoads, imageVars,
                   rotation, aspectRatio, filterVars, mode, layerVars, transformVars,
                   baseTransformVars, cropVars, baseCropVars, initialVars, sessionVars,
                   traceVars, drawVars, animVars, capturedAnimating, exportRead, saved,
                   saveError, pressed, saveRuns, onSaveCalls>>

\* waitForAnimations resolves and handleSave reads the shared values.
ReadForExport(timedOut) ==
    /\ savePhase' = "capture"
    /\ delayDue' = <<>>
    /\ exportRead' = <<[scale |-> scale, translateX |-> translateX, translateY |-> translateY,
                        crop |-> CurrentCrop, inFlight |-> inFlight, waited |-> clock,
                        timedOut |-> timedOut]>>
    /\ pinchUpdated' = FALSE
    /\ UNCHANGED <<otherVars, undoStack, redoStack, visible, pendingLoads, imageVars,
                   rotation, aspectRatio, filterVars, mode, layerVars, transformVars,
                   baseTransformVars, cropVars, baseCropVars, initialVars, sessionVars,
                   traceVars, drawVars, animVars, capturedAnimating, clock, saved,
                   saveError, pressed, saveRuns, onSaveCalls>>

\* setTimeout(resolve, 100) fires.
WaitDelayFire ==
    /\ savePhase \in {"delay", "settling"}
    /\ clock >= delayDue[1]
    /\ ReadForExport(FALSE)

\* The 2 s timeout fires: clearInterval, resolve.
WaitTimeoutFire ==
    /\ savePhase \in {"polling", "settling"}
    /\ clock >= timeoutDue(0)
    /\ ReadForExport(TRUE)

\* A catch block that gave the editor up as handleClose does.
handleSaveCatchCloses ==
    /\ visible' = FALSE
    /\ imageUri' = <<>>
    /\ originalImageUri' = <<>>
    /\ imageSize' = [width |-> I(0), height |-> I(0)]
    /\ rotation' = 0
    /\ aspectRatio' = "free"
    /\ brightness' = 0 /\ contrast' = 0 /\ saturation' = 0
    /\ mode' = "crop"
    /\ activeHandle' = "none"
    /\ drawings' = <<>> /\ textStickers' = <<>>
    /\ exifOrientation' = 1
    /\ scale' = I(1) /\ translateX' = I(0) /\ translateY' = I(0)
    /\ undoStack' = clear.undoStack
    /\ redoStack' = clear.redoStack
    /\ panTrace' = TranslationWritten(I(0), I(0))
    /\ UNCHANGED <<saved, onSaveCalls, animVars>>

\* The catch block of handleSave: console.error and the alert, nothing else.
handleSaveCatch ==
    UNCHANGED <<panTrace, saved, onSaveCalls, visible, imageVars, rotation, aspectRatio, filterVars, mode, activeHandle, layerVars, transformVars, undoStack, redoStack, animVars>>

\* The rest of handleSave: the 200 ms pause, the ViewShot capture and the file
\* work, which succeed or throw; on success onSave(media) and handleClose, whose
\* resetEditor writes scale, translateX, translateY and rotationValue and so ends
\* the animations running on them.
CommitSave ==
    \E ok \in BOOLEAN :
        /\ savePhase = "capture"
        /\ savePhase' = "idle"
        /\ clock' = 0
        /\ exportRead' = <<>>
        /\ saveError' = ~ok
        /\ IF ok
           THEN /\ onSaveCalls' = onSaveCalls + 1
                /\ saved' = <<[rotation |-> normalizedRotation(rotation),
                               scale |-> exportRead[1].scale,
                               translateX |-> exportRead[1].translateX,
                               translateY |-> exportRead[1].translateY,
                               crop |-> exportRead[1].crop,
                               aspectRatio |-> aspectRatio,
                               brightness |-> brightness, contrast |-> contrast,
                               saturation |-> saturation,
                               drawings |-> drawings, textStickers |-> textStickers,
                               exifOrientation |-> exifOrientation]>>
                /\ visible' = FALSE
                /\ imageUri' = <<>>
                /\ originalImageUri' = <<>>
                /\ imageSize' = [width |-> I(0), height |-> I(0)]
                /\ rotation' = 0
                /\ aspectRatio' = "free"
                /\ brightness' = 0 /\ contrast' = 0 /\ saturation' = 0
                /\ mode' = "crop"
                /\ activeHandle' = "none"
                /\ drawings' = <<>> /\ textStickers' = <<>>
                /\ exifOrientation' = 1
                /\ scale' = I(1) /\ translateX' = I(0) /\ translateY' = I(0)
                /\ panTrace' = TranslationWritten(I(0), I(0))
                /\ undoStack' = clear.undoStack
                /\ redoStack' = clear.redoStack
                /\ inFlight' = inFlight \ {"panX", "panY", "pinch", "rotate"}
                /\ isAnimating' = IF inFlight \cap Reporting # {} THEN FALSE ELSE isAnimating
           ELSE handleSaveCatch
        /\ pinchUpdated' = FALSE
        /\ UNCHANGED <<otherVars, pendingLoads, baseTransformVars, cropVars, baseCropVars,
                       initialVars, panActive, pinchActive, sessions, edits, drawVars,
                       capturedAnimating, delayDue, pressed, saveRuns>>

NextSave ==
    \/ OpenEditor
    \/ LoadComplete
    \/ handleRotate
    \/ handleReset
    \/ SelectAspectRatio
    \/ PanStart
    \/ PanEnd
    \/ PinchStart
    \/ PinchEnd
    \/ AnimationFinish
    \/ handleSave
    \/ ClockTick
    \/ WaitDelayFire
    \/ WaitTimeoutFire
    \/ CommitSave

SpecSave == InitEditor /\ [][NextSave]_vars

\* SpecSave with the event loop's guarantee: a timer that is due fires, time
\* passes, and the asynchronous rest of handleSave runs to its end.
SpecSaveLive ==
    /\ SpecSave
    /\ WF_vars(ClockTick)
    /\ WF_vars(WaitDelayFire)
    /\ WF_vars(WaitTimeoutFire)
    /\ WF_vars(CommitSave)

\* SpecCommit: the Done button on editors built for any of SaveWindows.
\* The windows the editor is built for: the phone of the other specifications, a
\* window 80 px wide and a window reported as 0 x 0, for which CROP_SIZE is not
\* positive.
SaveWindows ==
    { EditorWindow, [width |-> 80, height |-> 640], [width |-> 0, height |-> 0] }

InitCommit ==
    /\ window \in SaveWindows
    /\ ClampIdle
    /\ AspectIdle
    /\ RotateIdle
    /\ MapIdle
    /\ StackIdle
    /\ EditorIdle

NextCommit ==
    \/ OpenEditor
    \/ LoadComplete
    \/ handleRotate
    \/ handleReset
    \/ AnimationFinish
    \/ handleSave
    \/ ClockTick
    \/ WaitDelayFire
    \/ WaitTimeoutFire
    \/ CommitSave

SpecCommit == InitCommit /\ [][NextCommit]_vars

----------------------------------------------------------------------------
(* SpecAspect: updateCropForAspectRatio applied to crop rectangles inside   *)
(* the viewport, for each locked ratio.                                     *)

AspectRects ==
    { r \in { Rect(I(x), I(y), I(w), I(h)) : x \in {0, 10, 60, 260}, y \in {0, 10, 120, 420},
                                             w \in {100, 280, 300, 360},
                                             h \in {100, 200, 350, 520} } :
        CropRectValid(r) }

InitAspect ==
    /\ window = EditorWindow
    /\ ClampIdle
    /\ MapIdle
    /\ StackIdle
    /\ EditorIdle
    /\ RotateIdle
    /\ aspectArg \in { [rect |-> r, ratio |-> ratio] :
                         r \in AspectRects, ratio \in AspectRatios \ {"free"} }
    /\ aspectRes = <<>>

AspectApply ==
    /\ aspectRes = <<>>
    /\ aspectRes' = <<updateCropForAspectRatio(aspectArg.ratio, aspectArg.rect)>>
    /\ UNCHANGED <<window, aspectArg, rotateVars, clampVars, mapVars, stackVars, editorVars>>

NextAspect ==
    AspectApply

SpecAspect == InitAspect /\ [][NextAspect]_vars

----------------------------------------------------------------------------
(* C1: whenever no gesture is in progress (after a load, a corner drag, an  *)
(* aspect ratio selection, rotate, reset, undo, redo, close and reopen) the *)
(* crop rectangle is at least 100 x 100 and lies inside the viewport.       *)
C1_CropRectValidAtRest ==
    NoGesture => CropRectValid(CurrentCrop)

----------------------------------------------------------------------------
(* C2: clamping the result of clampCropToBounds again returns that result  *)
(* unchanged, for every candidate and every viewport of at least 100 px.   *)
C2_ClampIdempotent ==
    clampRes2 # <<>> => clampRes2 = clampRes

\* A candidate that the clamp had to change (undersized and out of bounds), clamped twice.
C2_Witness ==
    /\ clampRes2 # <<>>
    /\ clampRes[1] # clampArg
    /\ Lt(clampArg.width, MIN_CROP_SIZE)
    /\ Lt(clampArg.x, I(0))

(* C3: the result of clampCropToBounds has width >= 100, height >= 100 and *)
(* lies inside the viewport, also when the minimum size and the viewport   *)
(* conflict.                                                               *)
C3_ClampResultValid ==
    clampRes # <<>> => CropRectValid(clampRes[1])

\* The conflict case: the candidate starts less than 100 px from the right edge,
\* so the viewport clamp shrinks it below the minimum and the second pass acts.
C3_Witness ==
    /\ clampRes # <<>>
    /\ Ge(clampArg.x, I(0))
    /\ Gt(Add(clampArg.x, MIN_CROP_SIZE), SCREEN_WIDTH)
    /\ clampRes[1].x # clampArg.x

----------------------------------------------------------------------------
C5_PanFromBase ==
    (panActive /\ Len(panTrace.deltas) >= 1) =>
        LET last == panTrace.deltas[Len(panTrace.deltas)]
        IN  /\ translateX = Add(panTrace.startX, I(last[1]))
            /\ translateY = Add(panTrace.startY, I(last[2]))

\* A session away from the origin with two different updates.
C5_Witness ==
    /\ panActive
    /\ Len(panTrace.deltas) = 2
    /\ panTrace.deltas[1] # panTrace.deltas[2]
    /\ panTrace.startX # I(0)

\* The corner of r opposite to the handle.
OppositeCorner(handle, r) ==
    [x |-> IF LeftHandle(handle) THEN Add(r.x, r.width) ELSE r.x,
     y |-> IF TopHandle(handle) THEN Add(r.y, r.height) ELSE r.y]

(* C6: in a corner resize with a locked ratio, from a valid rectangle, the  *)
(* corner opposite to the handle is after every update, and at the end,     *)
(* within 0.5 px of where it was when the drag started, also when the       *)
(* minimum size or a viewport edge is hit.                                  *)
C6_OppositeCornerFixed ==
    [][((CornerUpdate \/ CornerEnd) /\ aspectRatio # "free" /\ CropRectValid(BaseCrop)) =>
          LET was == OppositeCorner(activeHandle, BaseCrop)
              now == OppositeCorner(activeHandle, CurrentCrop')
          IN  /\ Le(MathAbs(Sub(now.x, was.x)), Rat(1, 2))
              /\ Le(MathAbs(Sub(now.y, was.y)), Rat(1, 2))]_vars

----------------------------------------------------------------------------
FullImage(params) ==
    Rect(I(0), I(0), params.imageWidth, params.imageHeight)

(* C7: with rotation = 90, scale = 1, translation (0,0) and a screen crop   *)
(* equal to the full rotated bounding box of the displayed image,          *)
(* screenToImageCoordinates returns {0, 0, imageWidth, imageHeight}, for   *)
(* every image size including non-square images.                           *)
C7_FullImageAtRotation90 ==
    ( /\ mapRes # <<>>
      /\ mapArg.params.rotation = 90
      /\ mapArg.params.scale = I(1)
      /\ mapArg.params.translateX = I(0)
      /\ mapArg.params.translateY = I(0)
      /\ mapArg.crop = FullDisplayCrop(mapArg.params) )
    => mapRes[1] = FullImage(mapArg.params)

(* C8: with rotation = 0 and any scale > 0 and translation, a screen crop   *)
(* that exactly equals the displayed image bounds maps to                  *)
(* {0, 0, imageWidth, imageHeight}, by either conversion.                  *)
C8_FullImageAtRotation0 ==
    ( /\ mapArg.params.rotation = 0
      /\ mapArg.crop = FullDisplayCrop(mapArg.params) )
    => /\ mapRes # <<>> => mapRes[1] = FullImage(mapArg.params)
       /\ cropRes # <<>> => cropRes[1] = FullImage(mapArg.params)

\* Both conversions applied to the displayed bounds of a zoomed-out, panned,
\* non-square image.
C8_Witness ==
    /\ mapRes # <<>>
    /\ cropRes # <<>>
    /\ mapArg.params.rotation = 0
    /\ mapArg.crop = FullDisplayCrop(mapArg.params)
    /\ Lt(mapArg.params.scale, I(1))
    /\ mapArg.params.translateX # I(0)
    /\ mapArg.params.imageWidth # mapArg.params.imageHeight

ImageRectInBounds(r, params) ==
    /\ IsInteger(r.x) /\ IsInteger(r.y) /\ IsInteger(r.width) /\ IsInteger(r.height)
    /\ Le(I(0), r.x) /\ Le(r.x, Sub(params.imageWidth, I(1)))
    /\ Le(I(0), r.y) /\ Le(r.y, Sub(params.imageHeight, I(1)))
    /\ Ge(r.width, I(1))
    /\ Ge(r.height, I(1))
    /\ Le(Add(r.x, r.width), params.imageWidth)
    /\ Le(Add(r.y, r.height), params.imageHeight)

(* C9: for every input with scale > 0, rotation in {0, 90, 180, 270} and an *)
(* image of at least 1x1, the rectangle returned by the conversion has     *)
(* integer fields and lies inside the image, also after the final rounding. *)
C9_ResultInsideImage ==
    /\ mapRes # <<>> => ImageRectInBounds(mapRes[1], mapArg.params)
    /\ cropRes # <<>> => ImageRectInBounds(cropRes[1], mapArg.params)

----------------------------------------------------------------------------
(* C10: if saveState(s0) is called and undo(s1) is the next call on the     *)
(* stack, undo returns s0; a redo(s0) directly after that undo returns s1. *)
C10_UndoRedoLaw ==
    LET n == Len(stackLog)
    IN  /\ ( /\ n >= 2
             /\ stackLog[n - 1].op = "saveState"
             /\ stackLog[n].op = "undo" )
           => stackLog[n].ret = stackLog[n - 1].arg
        /\ ( /\ n >= 3
             /\ stackLog[n - 2].op = "saveState"
             /\ stackLog[n - 1].op = "undo"
             /\ stackLog[n].op = "redo"
             /\ stackLog[n].arg = stackLog[n - 2].arg )
           => stackLog[n].ret = stackLog[n - 1].arg

\* saveState(s0), undo(s1), redo(s0) with s0 # s1, on a stack that already held
\* a snapshot before the saveState.
C10_Witness ==
    /\ Len(stackLog) = 3
    /\ stackLog[1].op = "saveState"
    /\ stackLog[2].op = "undo"
    /\ stackLog[3].op = "redo"
    /\ stackLog[3].arg = stackLog[1].arg
    /\ stackLog[2].arg # stackLog[1].arg
    /\ stackLog[3].ret = stackLog[2].arg
    /\ Len(undoStack) >= 1

(* C11: after any sequence of saveState, undo, redo and clear on a stack    *)
(* built with bound N, the undo stack never holds more than N snapshots,   *)
(* also after redo has pushed the current state back onto it.              *)
C11_UndoStackBounded ==
    Len(undoStack) <= maxStackSize

\* A redo that returned a state has just filled the undo stack to its bound.
C11_Witness ==
    /\ Len(stackLog) >= 1
    /\ stackLog[Len(stackLog)].op = "redo"
    /\ stackLog[Len(stackLog)].ret # <<>>
    /\ maxStackSize >= 2
    /\ Len(undoStack) = maxStackSize

(* C12: every saveState leaves the redo stack empty, whatever it held       *)
(* before, so a redo directly after a saveState returns null.              *)
C12_SaveStateClearsRedo ==
    LET n == Len(stackLog)
    IN  /\ (n >= 1 /\ stackLog[n].op = "saveState") => redoStack = <<>>
        /\ ( /\ n >= 2
             /\ stackLog[n - 1].op = "saveState"
             /\ stackLog[n].op = "redo" )
           => stackLog[n].ret = <<>>

\* An undo filled the redo stack, then saveState, then redo.
C12_Witness ==
    /\ Len(stackLog) = 3
    /\ stackLog[1].op = "undo"
    /\ stackLog[1].ret # <<>>
    /\ stackLog[2].op = "saveState"
    /\ stackLog[3].op = "redo"
    /\ stackLog[3].ret = <<>>


\* r has the width / height of the ratio, within half a pixel of width.
HasRatio(r, ratio) ==
    Le(MathAbs(Sub(r.width, Mul(r.height, targetAspect(ratio)))), Rat(1, 2))

(* C13: whenever a non-free aspect ratio is selected and no gesture is in   *)
(* progress, the width / height of the crop rectangle is the value of the  *)
(* ratio, after any ratio selections, locked corner drags, reset, undo and *)
(* redo on a loaded image in crop mode.                                    *)
C13_LockedRatioAtRest ==
    (NoGesture /\ imageUri # <<>> /\ mode = "crop" /\ aspectRatio # "free")
        => HasRatio(CurrentCrop, aspectRatio)


\* The centre of r.
Centre(r) ==
    [x |-> Add(r.x, Div(r.width, I(2))), y |-> Add(r.y, Div(r.height, I(2)))]

\* The centres of a and b are within half a pixel of each other on both axes.
SameCentre(a, b) ==
    /\ Le(MathAbs(Sub(Centre(a).x, Centre(b).x)), Rat(1, 2))
    /\ Le(MathAbs(Sub(Centre(a).y, Centre(b).y)), Rat(1, 2))

cornerTieToWidth(handle, deltaX, deltaY) ==
    LET ta == targetAspect(aspectRatio)
        widthPrimary == Ge(MathAbs(deltaX), MathAbs(deltaY))
        freeWidth == IF LeftHandle(handle) THEN Sub(baseCropWidth, deltaX)
                                           ELSE Add(baseCropWidth, deltaX)
        freeHeight == IF TopHandle(handle) THEN Sub(baseCropHeight, deltaY)
                                           ELSE Add(baseCropHeight, deltaY)
        newWidth == IF widthPrimary THEN freeWidth ELSE Mul(freeHeight, ta)
        newHeight == IF widthPrimary THEN Div(freeWidth, ta) ELSE freeHeight
        newX == IF LeftHandle(handle) THEN Sub(Add(baseCropX, baseCropWidth), newWidth)
                                      ELSE baseCropX
        newY == IF TopHandle(handle) THEN Sub(Add(baseCropY, baseCropHeight), newHeight)
                                     ELSE baseCropY
    IN  clampCropToBounds(newX, newY, newWidth, newHeight)

(* C15: in a corner-drag update with a locked ratio where |deltaX| equals   *)
(* |deltaY| exactly, the width-primary branch is used: the width computed  *)
(* from the drag is kept and the height is width / ratio.                  *)
C15_TieIsWidthPrimary ==
    [][\A d \in CornerDeltas :
          ( /\ CornerUpdateBy(d)
            /\ aspectRatio # "free"
            /\ MathAbs(I(d[1])) = MathAbs(I(d[2])) )
          => CurrentCrop' = cornerTieToWidth(activeHandle, I(d[1]), I(d[2]))]_vars


(***************************************************************************)
(* SpecRotate: runs of Rotate presses.  The first rotation value is the    *)
(* one loadImage derives from the EXIF orientation tag; every further      *)
(* value is handleRotate's new rotation.  Done ends the run and writes the *)
(* normalised rotation into the media record.                              *)
(***************************************************************************)
MaxRotations == 12

ExifOrientations == 0..9

InitRotate ==
    /\ window = EditorWindow
    /\ ClampIdle
    /\ AspectIdle
    /\ MapIdle
    /\ StackIdle
    /\ EditorIdle
    /\ rotateArg \in ExifOrientations
    /\ rotateRun = <<getRotationForOrientation(rotateArg)>>

RotateApply ==
    /\ saved = <<>>
    /\ Len(rotateRun) <= MaxRotations
    /\ rotateRun' = Append(rotateRun, rotateBy90(rotateRun[Len(rotateRun)]))
    /\ UNCHANGED <<window, aspectVars, rotateArg, clampVars, mapVars, stackVars, editorVars>>

\* Done: the rotation handleSave writes into the media record.
RotateCommit ==
    /\ saved = <<>>
    /\ saved' = <<[rotation |-> normalizedRotation(rotateRun[Len(rotateRun)])]>>
    /\ UNCHANGED <<window, aspectVars, rotateVars, clampVars, mapVars, stackVars>>
    /\ UNCHANGED <<visible, pendingLoads, imageVars, rotation, aspectRatio, filterVars, mode,
                   layerVars, transformVars, baseTransformVars, cropVars, baseCropVars,
                   initialVars, sessionVars, pinchUpdated, traceVars, drawVars, animVars,
                   savePhase, capturedAnimating, clock, delayDue, exportRead, saveError,
                   pressed, saveRuns, onSaveCalls>>

NextRotate ==
    \/ RotateApply
    \/ RotateCommit

SpecRotate == InitRotate /\ [][NextRotate]_vars

(* C16: from any reachable rotation value, the one derived from EXIF       *)
(* included, four Rotate presses in a row return to a value congruent to   *)
(* the starting one modulo 360, and every press yields                     *)
(* (rotation + 90) mod 360 as a non-negative value.                        *)
C16_RotateCycles ==
    /\ \A i \in 1..(Len(rotateRun) - 1) :
          /\ rotateRun[i + 1] = (rotateRun[i] + 90) % 360
          /\ rotateRun[i + 1] >= 0
    /\ \A i \in 1..(Len(rotateRun) - 4) :
          (rotateRun[i + 4] - rotateRun[i]) % 360 = 0

C16_Witness ==
    /\ rotateRun[1] = -90
    /\ Len(rotateRun) >= 5
    /\ rotateRun[5] = 270


\* The snapshot holds, field by field, the editor state of the current state.
SnapshotOfNow(snap) ==
    /\ snap.rotation = rotation
    /\ snap.scale = scale
    /\ snap.translateX = translateX
    /\ snap.translateY = translateY
    /\ snap.cropWidth = cropWidth
    /\ snap.cropHeight = cropHeight
    /\ snap.brightness = brightness
    /\ snap.contrast = contrast
    /\ snap.saturation = saturation
    /\ snap.drawings = drawings
    /\ snap.textStickers = textStickers

\* The step leaves every snapshot field at the value the snapshot holds.
RestoredFrom(snap) ==
    /\ rotation' = snap.rotation
    /\ scale' = snap.scale
    /\ translateX' = snap.translateX
    /\ translateY' = snap.translateY
    /\ cropWidth' = snap.cropWidth
    /\ cropHeight' = snap.cropHeight
    /\ brightness' = snap.brightness
    /\ contrast' = snap.contrast
    /\ saturation' = snap.saturation
    /\ drawings' = snap.drawings
    /\ textStickers' = snap.textStickers

(* C17: rotate, reset, a mode switch, an aspect-ratio change, a drawing     *)
(* stroke, the start of a sticker drag or edit and a sticker deletion push  *)
(* a snapshot equal to the editor state as it was immediately before the    *)
(* action changed anything, and an Undo restores every field of the         *)
(* snapshot on top of the undo stack, so that one Undo directly after the   *)
(* action brings every snapshot field back.                                 *)
C17_SaveBeforeMutate ==
    [][ /\ (edits' = edits + 1 /\ Len(undoStack') = Len(undoStack) + 1)
            => /\ SnapshotOfNow(Top(undoStack'))
               /\ redoStack' = <<>>
        /\ (Len(redoStack') = Len(redoStack) + 1)
            => /\ RestoredFrom(Top(undoStack))
               /\ undoStack' = Pop(undoStack) ]_vars

\* A stroke was drawn and undone: the path is gone from the drawings and the state
\* with the path waits on the redo stack.
C17_Witness ==
    /\ mode = "draw"
    /\ drawings = <<>>
    /\ redoStack # <<>>
    /\ Len(Top(redoStack).drawings) = 1


(* C18: when Done is pressed and the wait does not time out, the transform  *)
(* and crop values used for the export are read at a moment when no settle  *)
(* animation is in flight (the pan springs on both axes, the pinch spring,  *)
(* the rotate timing, the reset springs, the aspect-ratio springs), for     *)
(* every interleaving of the animations' ends with the press.               *)
C18_ExportReadAtRest ==
    (exportRead # <<>> /\ ~exportRead[1].timedOut) => exportRead[1].inFlight = {}


(* C19: waitForAnimations always completes, no later than 2 s after the     *)
(* press, and the commit then proceeds.                                     *)
C19_WaitCompletes ==
    /\ [](exportRead # <<>> => exportRead[1].waited <= WaitTimeout)
    /\ (savePhase \in {"delay", "polling", "settling"}) ~> (savePhase = "capture")
    /\ (savePhase = "capture") ~> (savePhase = "idle")

\* A wait that began with isAnimating true and ended with the timeout.
C19_Witness ==
    /\ savePhase = "capture"
    /\ exportRead # <<>>
    /\ exportRead[1].timedOut
    /\ exportRead[1].waited = WaitTimeout
    /\ capturedAnimating


(* C20: a commit attempted while scale is zero or negative is rejected: the *)
(* export does not start, no values are read for it and onSave is not       *)
(* invoked with such a scale.                                               *)
C20_NonPositiveScaleRejected ==
    /\ savePhase # "idle" => Gt(scale, I(0))
    /\ exportRead # <<>> => Gt(exportRead[1].scale, I(0))
    /\ saved # <<>> => Gt(saved[1].scale, I(0))



(* C21: when the capture or the file step of a commit fails, onSave is not  *)
(* invoked, the editor is not reset, and the rotation, scale, translation,  *)
(* crop rectangle, filters, drawings, stickers and both stacks are what     *)
(* they were when Done was pressed, so that a retry sees the same edits.    *)
C21_FailedCommitKeepsEdits ==
    [][(savePhase = "capture" /\ saveError') => EditsHeld' = pressed[1]]_vars

\* A commit of an edited image (rotated, with a snapshot on the undo stack) has
\* failed and the editor waits for the retry.
C21_Witness ==
    /\ saveError
    /\ savePhase = "idle"
    /\ pressed # <<>>
    /\ pressed[1].rotation = 90
    /\ pressed[1].undoStack # <<>>
    /\ EditsHeld = pressed[1]


(* C22: outside of an active gesture, in every reachable state (after a     *)
(* load, the end of a gesture, rotate, reset, undo, redo, the selection of  *)
(* an aspect ratio and close) each base value equals its current value:     *)
(* baseScale = scale, baseTranslateX = translateX and baseTranslateY =      *)
(* translateY.                                                              *)
C22_BaseEqualsCurrentAtRest ==
    NoGesture =>
        /\ baseScale = scale
        /\ baseTranslateX = translateX
        /\ baseTranslateY = translateY



(* C23: after a successful image load, for every image size, the initial    *)
(* scale is the scale at which the image fills the crop rectangle: it is    *)
(* not below minScale = max(cropWidth/imageWidth, cropHeight/imageHeight),  *)
(* so the image covers the whole crop area.                                 *)
C23_InitialScaleCoversCrop ==
    [][Len(pendingLoads') < Len(pendingLoads) => Ge(scale', minScaleNow')]_vars



\* The square of side CROP_SIZE in the centre of the viewport.
DefaultCrop ==
    Rect(Div(Sub(SCREEN_WIDTH, CROP_SIZE), I(2)), Div(Sub(EDITOR_HEIGHT, CROP_SIZE), I(2)), CROP_SIZE, CROP_SIZE)

(* C24: after every successful image load, including a load in a second     *)
(* editing session that follows corner drags and a close in the first, the  *)
(* crop rectangle is the default square of side CROP_SIZE centred in the    *)
(* viewport: x = (viewportWidth - CROP_SIZE)/2, y = (viewportHeight -       *)
(* CROP_SIZE)/2.                                                            *)
C24_DefaultCropAfterLoad ==
    [][Len(pendingLoads') < Len(pendingLoads) => CurrentCrop' = DefaultCrop]_vars



(* C25: undo on an empty undo stack returns null and leaves both stacks     *)
(* unchanged (the current state is not pushed onto the redo stack); redo on *)
(* an empty redo stack returns null and changes nothing.                    *)
C25_EmptyUndoRedoNoOp ==
    [][ /\ (undoStack = <<>> /\ stackLog' # stackLog /\ Top(stackLog').op = "undo")
            => /\ Top(stackLog').ret = <<>>
               /\ UNCHANGED <<undoStack, redoStack>>
        /\ (redoStack = <<>> /\ stackLog' # stackLog /\ Top(stackLog').op = "redo")
            => /\ Top(stackLog').ret = <<>>
               /\ UNCHANGED <<undoStack, redoStack>> ]_vars

\* An undo that returned a snapshot, then an undo on the emptied undo stack: it
\* returned null and the redo stack holds the one state the first undo pushed.
C25_Witness ==
    /\ Len(stackLog) = 3
    /\ stackLog[2].op = "undo"
    /\ stackLog[2].ret # <<>>
    /\ stackLog[3].op = "undo"
    /\ stackLog[3].ret = <<>>
    /\ undoStack = <<>>
    /\ Len(redoStack) = 1



----------------------------------------------------------------------------
(* SpecAlias: the objects behind the layers.  Each drawing-path record, its *)
(* points array and each sticker record is an object with an address (obj,  *)
(* pointsObj); two records that carry one address are one object, and a     *)
(* write through one is seen through the other.  The handlers that build,   *)
(* copy and hand over these objects run on the live layers and the stack,   *)
(* MaxCalls of them in a run.                                               *)

MaxLayers == 2
MaxSnapshots == 2
MaxCalls == 5

ObjectsOf(dr, st) ==
    {dr[i].obj : i \in DOMAIN dr} \cup {dr[i].pointsObj : i \in DOMAIN dr} \cup {st[i].obj : i \in DOMAIN st}

SnapshotObjects(snap) ==
    ObjectsOf(snap.drawings, snap.textStickers)

StackObjects ==
    UNION ({SnapshotObjects(undoStack[i]) : i \in DOMAIN undoStack} \cup {SnapshotObjects(redoStack[i]) : i \in DOMAIN redoStack})

LiveObjects ==
    ObjectsOf(drawings, textStickers)

\* The k-th address, counted from 1, that no object in `used` has: the address of
\* the k-th object a handler allocates.
Fresh(used, k) ==
    CHOOSE a \in 1..(Cardinality(used) + k) : a \notin used /\ Cardinality((1..a) \ used) = k

\* A push of the object it was handed, without a copy.
cloneStateShared(state, used) ==
    cloneState(state)

\* cloneState with the objects it allocates: a new record and a new points array
\* for each drawing, a new record for each sticker.
cloneStateAt(state, used) ==
    [cloneState(state) EXCEPT
        !.drawings = [i \in DOMAIN state.drawings |->
                        [state.drawings[i] EXCEPT !.obj = Fresh(used, 2 * i - 1),
                                                  !.pointsObj = Fresh(used, 2 * i)]],
        !.textStickers = [i \in DOMAIN state.textStickers |->
                            [state.textStickers[i] EXCEPT
                                !.obj = Fresh(used, 2 * Len(state.drawings) + i)]]]

WithTop(seq, v) ==
    [seq EXCEPT ![Len(seq)] = v]

aliasRest ==
    <<otherVars, visible, pendingLoads, imageVars, aspectRatio, mode, baseTransformVars, cropX, cropY, baseCropVars, initialVars, sessionVars, pinchUpdated, panTrace, sessions, drawVars, animVars, saveVars>>

\* saveStateBeforeAction: the snapshot pushed is the copy cloneState allocates.
AliasSaveCurrent ==
    LET r == saveState(undoStack, redoStack, maxStackSize, getCurrentEditorState)
    IN  /\ Len(undoStack) < MaxSnapshots
        /\ undoStack' = WithTop(r.undoStack, cloneStateAt(getCurrentEditorState, StackObjects \cup LiveObjects))
        /\ redoStack' = r.redoStack

\* handleDrawingStart
AliasDrawingStart ==
    /\ edits < MaxCalls
    /\ edits' = edits + 1
    /\ AliasSaveCurrent
    /\ UNCHANGED <<rotation, filterVars, layerVars, transformVars, cropWidth, cropHeight, aliasRest>>

\* handlePathComplete builds the path record with a copy of the points;
\* handleDrawingComplete appends it to a new drawings array.
AliasDrawingComplete ==
    \E p \in DrawPoints :
        /\ edits < MaxCalls
        /\ edits' = edits + 1
        /\ Len(drawings) + Len(textStickers) < MaxLayers
        /\ drawings' = Append(drawings, [obj |-> Fresh(StackObjects \cup LiveObjects, 1),
                                         pointsObj |-> Fresh(StackObjects \cup LiveObjects, 2),
                                         points |-> <<p>>, color |-> "#FF0000", strokeWidth |-> 5])
        /\ UNCHANGED <<undoStack, redoStack, rotation, filterVars, textStickers, transformVars, cropWidth, cropHeight, aliasRest>>

\* handleAddTextSticker (the mode it sets plays no part here): the sticker record
\* is allocated after the objects of the snapshot.
AliasAddTextSticker ==
    /\ edits < MaxCalls
    /\ edits' = edits + 1
    /\ Len(drawings) + Len(textStickers) < MaxLayers
    /\ AliasSaveCurrent
    /\ textStickers' = Append(textStickers, [obj |-> Fresh(StackObjects \cup LiveObjects, 2 * Len(drawings) + Len(textStickers) + 1), x |-> I(130), y |-> I(245)])
    /\ UNCHANGED <<rotation, filterVars, drawings, transformVars, cropWidth, cropHeight, aliasRest>>

\* handleStickerUpdateStart
AliasStickerUpdateStart ==
    /\ edits < MaxCalls
    /\ edits' = edits + 1
    /\ textStickers # <<>>
    /\ AliasSaveCurrent
    /\ UNCHANGED <<rotation, filterVars, layerVars, transformVars, cropWidth, cropHeight, aliasRest>>

\* handleStickerUpdate(updatedSticker): the sticker component hands over the
\* moved sticker, as a new object or as the object it was given.
AliasStickerUpdate ==
    \E i \in DOMAIN textStickers, to \in StickerMoves, inPlace \in BOOLEAN :
        /\ edits < MaxCalls
        /\ edits' = edits + 1
        /\ textStickers[i].x # to.x
        /\ textStickers' = [textStickers EXCEPT ![i] =
                              [obj |-> IF inPlace THEN textStickers[i].obj
                                       ELSE Fresh(StackObjects \cup LiveObjects, 1),
                               x |-> to.x, y |-> to.y]]
        /\ UNCHANGED <<undoStack, redoStack, rotation, filterVars, drawings, transformVars, cropWidth, cropHeight, aliasRest>>

\* handleStickerDelete
AliasStickerDelete ==
    \E i \in DOMAIN textStickers :
        /\ edits < MaxCalls
        /\ edits' = edits + 1
        /\ AliasSaveCurrent
        /\ textStickers' = SubSeq(textStickers, 1, i - 1) \o SubSeq(textStickers, i + 1, Len(textStickers))
        /\ UNCHANGED <<rotation, filterVars, drawings, transformVars, cropWidth, cropHeight, aliasRest>>

\* handleUndo: the copy of the current state goes onto the redo stack, the
\* snapshot popped from the undo stack becomes the live state.
AliasUndo ==
    /\ edits < MaxCalls
    /\ edits' = edits + 1
    /\ canUndo(undoStack)
    /\ LET r == undo(undoStack, redoStack, getCurrentEditorState)
       IN  /\ undoStack' = r.stacks.undoStack
           /\ redoStack' = WithTop(r.stacks.redoStack, cloneStateAt(getCurrentEditorState, StackObjects \cup LiveObjects))
           /\ applyEditorState(r.ret[1])
    /\ UNCHANGED aliasRest

\* handleRedo
AliasRedo ==
    /\ edits < MaxCalls
    /\ edits' = edits + 1
    /\ canRedo(redoStack)
    /\ LET r == redo(undoStack, redoStack, getCurrentEditorState)
       IN  /\ undoStack' = WithTop(r.stacks.undoStack, cloneStateAt(getCurrentEditorState, StackObjects \cup LiveObjects))
           /\ redoStack' = r.stacks.redoStack
           /\ applyEditorState(r.ret[1])
    /\ UNCHANGED aliasRest

NextAlias ==
    \/ AliasDrawingStart
    \/ AliasDrawingComplete
    \/ AliasAddTextSticker
    \/ AliasStickerUpdateStart
    \/ AliasStickerUpdate
    \/ AliasStickerDelete
    \/ AliasUndo
    \/ AliasRedo

SpecAlias == InitEditor /\ [][NextAlias]_vars

(* C26: every snapshot held in the undo or the redo stack is a full copy:   *)
(* its drawing-path records, their point lists and its sticker records are *)
(* objects that neither the live editor state nor the state handed to       *)
(* saveState, undo or redo holds, so that no later write to the live state  *)
(* changes a stored snapshot.                                               *)
C26_SnapshotsShareNothing ==
    /\ [](StackObjects \cap LiveObjects = {})
    /\ [][StackObjects' \cap LiveObjects = {}]_vars

\* A sticker moved in place after its snapshot was pushed, with a drawing and
\* its copy on the stack: the snapshot keeps the position before the move.
C26_Witness ==
    /\ Len(undoStack) = 2
    /\ Len(drawings) = 1
    /\ Len(textStickers) = 1
    /\ Len(Top(undoStack).drawings) = 1
    /\ Len(Top(undoStack).textStickers) = 1
    /\ Top(undoStack).textStickers[1].x # textStickers[1].x
    /\ Top(undoStack).textStickers[1].obj # textStickers[1].obj



(* C27: the EXIF lookup maps orientation 1 to 0 degrees, 3 to 180, 6 to 90, *)
(* and 5, 7 and 8 to the 90-degree family (an odd multiple of 90); the pure *)
(* flips 2 and 4 map to rotation 0; any other code maps to 0.               *)
C27_ExifLookup ==
    LET first == rotateRun[1]
    IN  /\ rotateArg = 1 => first = 0
        /\ rotateArg = 3 => first = 180
        /\ rotateArg = 6 => first = 90
        /\ rotateArg \in {5, 7, 8} => first % 180 = 90
        /\ rotateArg \in {2, 4} => first = 0
        /\ rotateArg \notin 1..8 => first = 0



(* C28: for every rotation value reachable in the editor, including a       *)
(* negative initial rotation from EXIF, the rotation written into the       *)
(* commit record is in [0, 360) and congruent to the live rotation modulo   *)
(* 360.                                                                     *)
C28_CommitRotationNormalised ==
    saved # <<>> =>
        /\ saved[1].rotation \in 0..359
        /\ (saved[1].rotation - rotateRun[Len(rotateRun)]) % 360 = 0

\* The commit of an image whose EXIF rotation is negative and that was not rotated
\* by hand: -90 is written as 270.
C28_Witness ==
    /\ saved # <<>>
    /\ rotateRun = <<-90>>
    /\ saved[1].rotation = 270


(* C29: in free (unlocked) mode, for each of the four corners and every     *)
(* drag delta, after every update of a corner resize that starts from a     *)
(* valid in-bounds rectangle, the diagonally opposite corner stays at its   *)
(* screen position from before the drag, also when the drag would shrink    *)
(* the rectangle below the 100 px minimum.                                  *)
C29_FreeOppositeCornerFixed ==
    [][(CornerUpdate /\ aspectRatio = "free" /\ CropRectValid(BaseCrop)) =>
          OppositeCorner(activeHandle, CurrentCrop') = OppositeCorner(activeHandle, BaseCrop)]_vars



(* C30: after k complete pan sessions with final deltas d1..dk, from the    *)
(* translation t0, the translation is t0 + d1 + ... + dk; within a pinch    *)
(* session the scale is the clamped product of the base and the factor; a   *)
(* new session starts from the value the last one left and not from its own *)
(* delta, and neither onEnd nor the end of the settle animation changes the *)
(* committed value.                                                         *)
C30_SessionsAccumulate ==
    /\ [](~panActive => /\ translateX = panTrace.totalX
                        /\ translateY = panTrace.totalY)
    /\ [](panActive => /\ panTrace.startX = panTrace.totalX
                       /\ panTrace.startY = panTrace.totalY)
    /\ [](pinchUpdated => \E factor \in PinchFactors :
                            scale = MathMax(minScaleNow, MathMin(Mul(baseScale, factor), I(3))))
    /\ [][(pinchActive' # pinchActive \/ panActive' # panActive \/ inFlight' # inFlight)
            => UNCHANGED transformVars]_vars
    /\ [][(pinchActive /\ ~pinchActive') => baseScale' = scale]_vars

\* Two pan sessions have ended, the second with the other delta: the translation
\* is the sum of the two.
C30_Witness ==
    /\ ~panActive
    /\ sessions = 2
    /\ inFlight = {}
    /\ translateX = I(30)
    /\ translateY = I(-20)
    /\ panTrace.startX # I(0)


----------------------------------------------------------------------------
\* The transform a pan session and a pinch session leave when they run one after
\* the other (in either order) from the transform `from`: the pan ending on the
\* last of `deltas`, the pinch on `factor` (<<>>: the session had no update).
SessionsInTurn(from, deltas, factor) ==
    LET tx == IF deltas = <<>> THEN from.translateX ELSE Add(from.translateX, I(deltas[Len(deltas)][1]))
        ty == IF deltas = <<>> THEN from.translateY ELSE Add(from.translateY, I(deltas[Len(deltas)][2]))
        sc == IF factor = <<>> THEN from.scale ELSE MathMax(minScaleNow, MathMin(Mul(from.scale, factor[1]), I(3)))
    IN  [scale |-> sc, translateX |-> tx, translateY |-> ty,
         baseScale |-> sc, baseTranslateX |-> tx, baseTranslateY |-> ty]

\* One pan session and one pinch session, begun while the other was running, have
\* both ended, and no image load completed in between.
PairEnded ==
    ~panActive /\ ~pinchActive /\ panTrace.rest # <<>> /\ panTrace.pans = 1 /\ panTrace.pinches = 1

(* C31: the start, update and end of a pan leave scale and baseScale as     *)
(* they are, the start, update and end of a pinch leave translateX,         *)
(* translateY and their bases as they are, and when a pan session and a     *)
(* pinch session that overlapped have both ended, in whatever order their   *)
(* callbacks ran, the transform is the one the two sessions leave when run  *)
(* one after the other.                                                     *)
C31_PanPinchIndependent ==
    /\ [][(PanStart \/ PanUpdate \/ PanEnd) => UNCHANGED <<scale, baseScale>>]_vars
    /\ [][(PinchStart \/ PinchUpdate \/ PinchEnd) => UNCHANGED <<translateX, translateY, baseTranslateX, baseTranslateY>>]_vars
    /\ [](PairEnded => TransformState = SessionsInTurn(panTrace.rest[1], panTrace.deltas, panTrace.factor))

\* An overlapped pair has ended, the pan having moved the image and the pinch
\* having changed its scale.
C31_Witness ==
    /\ PairEnded
    /\ panTrace.deltas # <<>>
    /\ panTrace.factor # <<>>
    /\ translateX # panTrace.rest[1].translateX
    /\ scale # panTrace.rest[1].scale


----------------------------------------------------------------------------
(* SpecEvict: a stack built with a bound of 1..MaxStackSize takes a run of  *)
(* saveState calls, up to MaxOverflow more than its bound, and then a run   *)
(* of undo calls, one more than its bound at most.  stackLog holds every    *)
(* call of the run.                                                         *)

MaxOverflow == 2

\* Four snapshots told apart by their rotation.
EvictStates ==
    { EditorState(rot, I(1), I(0), I(0), I(280), I(280), 0, 0, 0, <<>>, <<>>) : rot \in {0, 90, 180, 270} }

\* The calls of the run with the given op, in call order.
CallsOf(op) ==
    SelectSeq(stackLog, LAMBDA c : c.op = op)

EvictSaveState ==
    \E state \in EvictStates :
        LET r == saveState(undoStack, redoStack, maxStackSize, state)
        IN  /\ CallsOf("undo") = <<>>
            /\ Len(stackLog) < maxStackSize + MaxOverflow
            /\ undoStack' = r.undoStack
            /\ redoStack' = r.redoStack
            /\ stackLog' = Append(stackLog, [op |-> "saveState", arg |-> <<state>>, ret |-> <<>>])
            /\ UNCHANGED <<window, aspectVars, rotateVars, clampVars, mapVars, maxStackSize, editorVars>>

EvictUndo ==
    \E currentState \in StackStates :
        LET r == undo(undoStack, redoStack, currentState)
        IN  /\ Len(CallsOf("undo")) <= maxStackSize
            /\ undoStack' = r.stacks.undoStack
            /\ redoStack' = r.stacks.redoStack
            /\ stackLog' = Append(stackLog, [op |-> "undo", arg |-> <<currentState>>, ret |-> r.ret])
            /\ UNCHANGED <<window, aspectVars, rotateVars, clampVars, mapVars, maxStackSize, editorVars>>

NextEvict ==
    \/ EvictSaveState
    \/ EvictUndo

SpecEvict == InitStack /\ [][NextEvict]_vars

(* C32: after k saveState calls on a stack with bound N the undo stack      *)
(* holds the min(k, N) most recent snapshots in save order (for k > N:      *)
(* exactly the k - N oldest are gone), and the undo calls that follow       *)
(* return them newest first, one each, and null once they are used up.      *)
C32_OldestEvicted ==
    LET saves == CallsOf("saveState")
        undos == CallsOf("undo")
        k == Len(saves)
        kept == IF k < maxStackSize THEN k ELSE maxStackSize
        left == IF Len(undos) < kept THEN kept - Len(undos) ELSE 0
    IN  /\ Len(undoStack) = left
        /\ \A i \in 1..left : undoStack[i] = saves[k - kept + i].arg[1]
        /\ \A j \in 1..Len(undos) :
              undos[j].ret = IF j <= kept THEN saves[k - j + 1].arg ELSE <<>>

\* A stack with a bound of at least 2 took more saveState calls than its bound,
\* the kept snapshots all different and the evicted one different from them, and
\* then as many undo calls as its bound.
C32_Witness ==
    LET saves == CallsOf("saveState")
        undos == CallsOf("undo")
    IN  /\ maxStackSize >= 2
        /\ Len(saves) > maxStackSize
        /\ Len(undos) = maxStackSize
        /\ \A i, j \in 1..Len(saves) : i # j => saves[i].arg # saves[j].arg
        /\ undoStack = <<>>


(* C33: when Done was pressed during an animation (isAnimating true) and    *)
(* that animation has completed before the 2 s timeout, the next run of the *)
(* interval callback, at most 50 ms later, sees the completion and arms the *)
(* 100 ms settle delay, so that the wait ends about 150 ms after the        *)
(* completion and not when the timeout fires.                               *)
C33_WaitEndsOnCompletion ==
    [][(savePhase = "polling" /\ capturedAnimating /\ ~isAnimating /\ clock < timeoutDue(0) /\ clock' > clock)
          => (savePhase' = "settling" /\ clock' <= clock + PollInterval)]_vars


(* C34: the Reset action, pressed on a loaded image after any edits, leaves *)
(* rotation, scale, translation, the crop rectangle (x, y, width, height),  *)
(* the filters, the drawings and the stickers at the values they had just   *)
(* after the image was loaded.                                              *)
C34_ResetRestoresLoaded ==
    [][(handleReset /\ imageUri # <<>>) => Resettable' = panTrace.loaded[1]]_vars


(* C35: an undo or a redo that returns a snapshot takes one snapshot off    *)
(* one stack and puts one on the other, so the sum of the two stack sizes   *)
(* is unchanged by it; and after any sequence of saveState, undo, redo and  *)
(* clear the sum is at most the bound the stack was built with.             *)
C35_StackSumBounded ==
    /\ [](Len(undoStack) + Len(redoStack) <= maxStackSize)
    /\ [][(StackUndo /\ Top(stackLog').ret # <<>>)
            => /\ Len(undoStack') = Len(undoStack) - 1
               /\ Len(redoStack') = Len(redoStack) + 1]_vars
    /\ [][(StackRedo /\ Top(stackLog').ret # <<>>)
            => /\ Len(undoStack') = Len(undoStack) + 1
               /\ Len(redoStack') = Len(redoStack) - 1]_vars

\* A full stack with snapshots on both sides, reached by a redo that returned a
\* snapshot after an undo that returned one.
C35_Witness ==
    /\ Len(stackLog) = 3
    /\ stackLog[2].op = "undo" /\ stackLog[2].ret # <<>>
    /\ stackLog[3].op = "redo" /\ stackLog[3].ret # <<>>
    /\ undoStack # <<>>
    /\ redoStack # <<>>
    /\ Len(undoStack) + Len(redoStack) = maxStackSize


(* C36: while an image with positive dimensions is loaded, scale is         *)
(* strictly positive, whatever the editor was built for and whatever was    *)
(* pressed since, so that the coordinate conversion never divides by zero   *)
(* or by a negative scale.                                                  *)
C36_ScalePositive ==
    (imageUri # <<>> /\ Gt(imageSize.width, I(0)) /\ Gt(imageSize.height, I(0))) => Gt(scale, I(0))


----------------------------------------------------------------------------
(* SpecDone: the Done button pressed while an earlier handleSave has not    *)
(* returned.  Every call of handleSave is followed on its own from one      *)
(* await to the next; the calls share the editor and interleave as their    *)
(* timers and promises resolve.  (SpecSave follows one call and the timers  *)
(* of its waitForAnimations.)                                               *)

\* The awaits a call of handleSave stops at.
SavePoints ==
    { "waiting",     \* await waitForAnimations()
      "pausing",     \* await new Promise(resolve => setTimeout(resolve, 200))
      "capturing",   \* await viewShotRef.current.capture(...)
      "filing" }     \* await RNFS.exists / mkdir / moveFile / stat

\* viewShotRef.current: the ViewShot is rendered while the editor holds an image.
ViewShotMounted ==
    imageUri # <<>> /\ originalImageUri # <<>>

\* The calls in progress without call i.
WithoutRun(i) ==
    SubSeq(saveRuns, 1, i - 1) \o SubSeq(saveRuns, i + 1, Len(saveRuns))

doneRest ==
    <<otherVars, pendingLoads, baseTransformVars, cropVars, baseCropVars, initialVars, panActive, pinchActive, sessions, drawVars, savePhase, capturedAnimating, clock, delayDue, exportRead, pressed>>

\* Done: handleSave up to `await waitForAnimations()`.  The call keeps the React
\* state of the render it was made in.
handleSaveCalled ==
    /\ visible
    /\ NoGesture
    /\ ~isDrawing
    /\ edits < MaxEdits
    /\ edits' = edits + 1
    /\ imageUri # <<>>
    /\ originalImageUri # <<>>
    /\ imageSize.width # I(0)
    /\ imageSize.height # I(0)
    /\ saveRuns' = Append(saveRuns,
                          [phase |-> "waiting", read |-> <<>>,
                           closure |-> [rotation |-> rotation, aspectRatio |-> aspectRatio,
                                        brightness |-> brightness, contrast |-> contrast,
                                        saturation |-> saturation, drawings |-> drawings,
                                        textStickers |-> textStickers,
                                        exifOrientation |-> exifOrientation]])
    /\ pinchUpdated' = FALSE
    /\ UNCHANGED <<doneRest, visible, imageVars, rotation, aspectRatio, filterVars, mode,
                   activeHandle, layerVars, transformVars, undoStack, redoStack, animVars,
                   panTrace, saved, saveError, onSaveCalls>>

\* waitForAnimations resolves for a call: it reads the shared values and starts the
\* 200 ms pause.
handleSaveWaited ==
    \E i \in DOMAIN saveRuns :
        /\ saveRuns[i].phase = "waiting"
        /\ saveRuns' = [saveRuns EXCEPT ![i] = [@ EXCEPT !.phase = "pausing",
                            !.read = <<[scale |-> scale, translateX |-> translateX,
                                        translateY |-> translateY, crop |-> CurrentCrop]>>]]
        /\ pinchUpdated' = FALSE
        /\ UNCHANGED <<doneRest, visible, imageVars, rotation, aspectRatio, filterVars, mode,
                       activeHandle, layerVars, transformVars, undoStack, redoStack, animVars,
                       panTrace, edits, saved, saveError, onSaveCalls>>

\* The pause of a call ends: without a ViewShot the call throws and its catch block
\* shows the alert, with one it starts the capture.
handleSavePaused ==
    \E i \in DOMAIN saveRuns :
        /\ saveRuns[i].phase = "pausing"
        /\ IF ViewShotMounted
           THEN /\ saveRuns' = [saveRuns EXCEPT ![i].phase = "capturing"]
                /\ UNCHANGED saveError
           ELSE /\ saveRuns' = WithoutRun(i)
                /\ saveError' = TRUE
        /\ pinchUpdated' = FALSE
        /\ UNCHANGED <<doneRest, visible, imageVars, rotation, aspectRatio, filterVars, mode,
                       activeHandle, layerVars, transformVars, undoStack, redoStack, animVars,
                       panTrace, edits, saved, onSaveCalls>>

\* The capture of a call resolves with a file, or it rejects or resolves empty and
\* the catch block shows the alert.
handleSaveCaptured ==
    \E i \in DOMAIN saveRuns, ok \in BOOLEAN :
        /\ saveRuns[i].phase = "capturing"
        /\ IF ok
           THEN /\ saveRuns' = [saveRuns EXCEPT ![i].phase = "filing"]
                /\ UNCHANGED saveError
           ELSE /\ saveRuns' = WithoutRun(i)
                /\ saveError' = TRUE
        /\ pinchUpdated' = FALSE
        /\ UNCHANGED <<doneRest, visible, imageVars, rotation, aspectRatio, filterVars, mode,
                       activeHandle, layerVars, transformVars, undoStack, redoStack, animVars,
                       panTrace, edits, saved, onSaveCalls>>

\* The file work of a call ends: it throws, or the call builds the media record
\* from what it read and what its render held, calls onSave(media) and handleClose.
handleSaveFiled ==
    \E i \in DOMAIN saveRuns, ok \in BOOLEAN :
        /\ saveRuns[i].phase = "filing"
        /\ saveRuns' = WithoutRun(i)
        /\ saveError' = ~ok
        /\ IF ok
           THEN /\ onSaveCalls' = onSaveCalls + 1
                /\ saved' = <<[rotation |-> normalizedRotation(saveRuns[i].closure.rotation),
                               scale |-> saveRuns[i].read[1].scale,
                               translateX |-> saveRuns[i].read[1].translateX,
                               translateY |-> saveRuns[i].read[1].translateY,
                               crop |-> saveRuns[i].read[1].crop,
                               aspectRatio |-> saveRuns[i].closure.aspectRatio,
                               brightness |-> saveRuns[i].closure.brightness,
                               contrast |-> saveRuns[i].closure.contrast,
                               saturation |-> saveRuns[i].closure.saturation,
                               drawings |-> saveRuns[i].closure.drawings,
                               textStickers |-> saveRuns[i].closure.textStickers,
                               exifOrientation |-> saveRuns[i].closure.exifOrientation]>>
                /\ visible' = FALSE
                /\ imageUri' = <<>>
                /\ originalImageUri' = <<>>
                /\ imageSize' = [width |-> I(0), height |-> I(0)]
                /\ rotation' = 0
                /\ aspectRatio' = "free"
                /\ brightness' = 0 /\ contrast' = 0 /\ saturation' = 0
                /\ mode' = "crop"
                /\ activeHandle' = "none"
                /\ drawings' = <<>> /\ textStickers' = <<>>
                /\ exifOrientation' = 1
                /\ scale' = I(1) /\ translateX' = I(0) /\ translateY' = I(0)
                /\ panTrace' = TranslationWritten(I(0), I(0))
                /\ undoStack' = clear.undoStack
                /\ redoStack' = clear.redoStack
                /\ inFlight' = inFlight \ {"panX", "panY", "pinch", "rotate"}
                /\ isAnimating' = IF inFlight \cap Reporting # {} THEN FALSE ELSE isAnimating
           ELSE handleSaveCatch
        /\ pinchUpdated' = FALSE
        /\ UNCHANGED <<doneRest, edits>>

NextDone ==
    \/ OpenEditor
    \/ LoadComplete
    \/ handleClose
    \/ handleRotate
    \/ AnimationFinish
    \/ handleSaveCalled
    \/ handleSaveWaited
    \/ handleSavePaused
    \/ handleSaveCaptured
    \/ handleSaveFiled

SpecDone == InitEditor /\ [][NextDone]_vars

(* C37: between the moment the editor is shown and the next time it is      *)
(* shown, onSave is invoked at most once, however often Done is pressed and *)
(* however the waits, captures and file operations of the handleSave calls  *)
(* interleave.                                                              *)
C37_OnSaveAtMostOnce ==
    onSaveCalls <= 1


\* The image getImageDimensions reports for a uri.
ImageAt(uri) ==
    CHOOSE img \in EditorImages : img.uri = uri

(* C38: once no image load is pending, the image the editor holds is the    *)
(* one requested last: while the editor is shown, imageUri is the source    *)
(* requested last and imageSize and the initial scale are those of that     *)
(* image; after the editor was closed, imageUri is null and imageSize is    *)
(* 0 x 0, also when a load was still pending at the close.                  *)
C38_LastRequestWins ==
    pendingLoads = <<>> =>
        /\ imageUri = originalImageUri
        /\ ~visible => (imageUri = <<>> /\ imageSize = [width |-> I(0), height |-> I(0)])
        /\ (visible /\ imageUri # <<>>) =>
              /\ imageSize = [width |-> I(ImageAt(imageUri[1]).width), height |-> I(ImageAt(imageUri[1]).height)]
              /\ initialScale = MathMin(Div(CROP_SIZE, imageSize.width), Div(CROP_SIZE, imageSize.height))



----------------------------------------------------------------------------
(* TextSticker: the pan, pinch and rotation gestures of one sticker, composed
   with Gesture.Simultaneous.  The worklets run on the UI thread and hold the
   sticker prop of the component's last render; what they hand to runOnJS
   runs later on the JS thread, in the order it was handed over.  The sticker
   followed is the first of textStickers and is not being edited.           *)

StickerGestures == {"pan", "pinch", "rotation"}

\* e.translationX and e.translationY of a drag
StickerDrags ==
    { [x |-> I(30), y |-> I(-10)] }

\* e.scale of a pinch
StickerPinches ==
    { I(2), Rat(1, 4) }

\* e.rotation of a twist, as a multiple of pi radians
StickerTwists ==
    { Rat(1, 2) }

\* sticker.scale || 1
scaleOr1(sticker) ==
    IF sticker.scale = I(0) THEN I(1) ELSE sticker.scale

\* (e.rotation * 180) / Math.PI, for e.rotation = turns * pi
degrees(turns) ==
    Mul(turns, I(180))

StickerMounted ==
    /\ visible
    /\ stickerView.prop # <<>>

stickerRest ==
    <<otherVars, visible, pendingLoads, imageVars, rotation, aspectRatio, filterVars, mode,
      drawings, transformVars, baseTransformVars, cropVars, baseCropVars, initialVars,
      sessionVars, pinchUpdated, traceVars, isDrawing, pathPoints, animVars, saveVars>>

\* The component renders with the sticker of the editor's state: the gestures are
\* built again over the new prop, and the effect writes the four shared values.
StickerRender ==
    /\ visible
    /\ textStickers # <<>>
    /\ stickerView.prop # <<textStickers[1]>>
    /\ stickerView' = [stickerView EXCEPT !.prop = <<textStickers[1]>>,
                                          !.x = textStickers[1].x,
                                          !.y = textStickers[1].y,
                                          !.scale = scaleOr1(textStickers[1]),
                                          !.rotation = textStickers[1].rotation]
    /\ UNCHANGED <<stickerRest, textStickers, undoStack, redoStack>>

\* The bookkeeping of a gesture's onStart: runOnJS(onUpdateStart)().
StickerBegun(view, gesture) ==
    [view EXCEPT !.active = @ \cup {gesture},
                 !.begun = @ \cup {gesture},
                 !.together = @ \/ (view.active \cup {gesture} = StickerGestures),
                 !.queue = Append(@, [call |-> "onUpdateStart"])]

StickerCanStart(gesture) ==
    /\ StickerMounted
    /\ gesture \notin stickerView.begun

StickerPanStart ==
    /\ StickerCanStart("pan")
    /\ stickerView' = StickerBegun([stickerView EXCEPT !.x = stickerView.prop[1].x,
                                                       !.y = stickerView.prop[1].y], "pan")
    /\ UNCHANGED <<stickerRest, textStickers, undoStack, redoStack>>

StickerPanUpdate ==
    \E e \in StickerDrags :
        /\ "pan" \in stickerView.active
        /\ stickerView' = [stickerView EXCEPT !.x = Add(stickerView.prop[1].x, e.x),
                                              !.y = Add(stickerView.prop[1].y, e.y)]
        /\ stickerView' # stickerView
        /\ UNCHANGED <<stickerRest, textStickers, undoStack, redoStack>>

\* runOnJS(onUpdate)({...sticker, x: translateX.value, y: translateY.value})
StickerPanEnd ==
    /\ "pan" \in stickerView.active
    /\ stickerView' =
           [stickerView EXCEPT
               !.active = @ \ {"pan"},
               !.ended = [@ EXCEPT !.x = stickerView.x, !.y = stickerView.y],
               !.queue = Append(@, [call |-> "onUpdate",
                                    sticker |-> [stickerView.prop[1] EXCEPT
                                                     !.x = stickerView.x,
                                                     !.y = stickerView.y]])]
    /\ UNCHANGED <<stickerRest, textStickers, undoStack, redoStack>>

StickerPinchStart ==
    /\ StickerCanStart("pinch")
    /\ stickerView' = StickerBegun([stickerView EXCEPT
                                       !.scale = scaleOr1(stickerView.prop[1])], "pinch")
    /\ UNCHANGED <<stickerRest, textStickers, undoStack, redoStack>>

StickerPinchUpdate ==
    \E e \in StickerPinches :
        /\ "pinch" \in stickerView.active
        /\ stickerView' =
               [stickerView EXCEPT
                   !.scale = MathMax(Rat(1, 2),
                                     MathMin(Mul(e, scaleOr1(stickerView.prop[1])), I(3)))]
        /\ stickerView' # stickerView
        /\ UNCHANGED <<stickerRest, textStickers, undoStack, redoStack>>

\* runOnJS(onUpdate)({...sticker, scale: scale.value})
StickerPinchEnd ==
    /\ "pinch" \in stickerView.active
    /\ stickerView' =
           [stickerView EXCEPT
               !.active = @ \ {"pinch"},
               !.ended = [@ EXCEPT !.scale = stickerView.scale],
               !.queue = Append(@, [call |-> "onUpdate",
                                    sticker |-> [stickerView.prop[1] EXCEPT
                                                     !.scale = stickerView.scale]])]
    /\ UNCHANGED <<stickerRest, textStickers, undoStack, redoStack>>

StickerRotationStart ==
    /\ StickerCanStart("rotation")
    /\ stickerView' = StickerBegun([stickerView EXCEPT
                                       !.rotation = stickerView.prop[1].rotation],
                                   "rotation")
    /\ UNCHANGED <<stickerRest, textStickers, undoStack, redoStack>>

StickerRotationUpdate ==
    \E e \in StickerTwists :
        /\ "rotation" \in stickerView.active
        /\ stickerView' = [stickerView EXCEPT
                              !.rotation = Add(stickerView.prop[1].rotation, degrees(e))]
        /\ stickerView' # stickerView
        /\ UNCHANGED <<stickerRest, textStickers, undoStack, redoStack>>

\* runOnJS(onUpdate)({...sticker, rotation: rotation.value})
StickerRotationEnd ==
    /\ "rotation" \in stickerView.active
    /\ stickerView' =
           [stickerView EXCEPT
               !.active = @ \ {"rotation"},
               !.ended = [@ EXCEPT !.rotation = stickerView.rotation],
               !.queue = Append(@, [call |-> "onUpdate",
                                    sticker |-> [stickerView.prop[1] EXCEPT
                                                     !.rotation = stickerView.rotation]])]
    /\ UNCHANGED <<stickerRest, textStickers, undoStack, redoStack>>

\* prev.map(s => s.id === updatedSticker.id ? updatedSticker : s)
stickerReplaced(stickers, updatedSticker) ==
    [i \in DOMAIN stickers |->
        IF stickers[i].id = updatedSticker.id THEN updatedSticker ELSE stickers[i]]

\* The JS thread runs the oldest call the worklets handed over: handleStickerUpdateStart.
StickerStartRuns ==
    /\ stickerView.queue # <<>>
    /\ Head(stickerView.queue).call = "onUpdateStart"
    /\ SaveCurrent
    /\ stickerView' = [stickerView EXCEPT !.queue = Tail(@)]
    /\ UNCHANGED <<stickerRest, textStickers>>

\* The JS thread runs the oldest call the worklets handed over: handleStickerUpdate.
StickerUpdateRuns ==
    /\ stickerView.queue # <<>>
    /\ Head(stickerView.queue).call = "onUpdate"
    /\ textStickers' = stickerReplaced(textStickers, Head(stickerView.queue).sticker)
    /\ stickerView' = [stickerView EXCEPT !.queue = Tail(@)]
    /\ UNCHANGED <<stickerRest, undoStack, redoStack>>

NextSticker ==
    \/ OpenEditor
    \/ handleAddTextSticker
    \/ StickerRender
    \/ StickerPanStart
    \/ StickerPanUpdate
    \/ StickerPanEnd
    \/ StickerPinchStart
    \/ StickerPinchUpdate
    \/ StickerPinchEnd
    \/ StickerRotationStart
    \/ StickerRotationUpdate
    \/ StickerRotationEnd
    \/ StickerStartRuns
    \/ StickerUpdateRuns

SpecSticker == InitEditor /\ [][NextSticker]_vars

\* The three gestures were in progress at once, all have ended, every call they
\* handed over has run and the component has rendered the result.
StickerSettled ==
    /\ StickerMounted
    /\ stickerView.together
    /\ stickerView.active = {}
    /\ stickerView.queue = <<>>
    /\ stickerView.prop = <<textStickers[1]>>

\* C39: when a sticker's pan, pinch and rotation gestures were active together and
\* have all ended, the sticker's record holds the position the pan ended with, the
\* scale the pinch ended with and the rotation the twist ended with: no end callback
\* puts another gesture's field back to its value from before the gestures.
C39_StickerKeepsAllThree ==
    StickerSettled =>
        /\ textStickers[1].x = stickerView.ended.x
        /\ textStickers[1].y = stickerView.ended.y
        /\ textStickers[1].scale = stickerView.ended.scale
        /\ textStickers[1].rotation = stickerView.ended.rotation

=============================================================================
